---- MODULE Spec2Model ----
(***************************************************************************)
(* Model of the Informe CEV v2 PDF scraper: the region text extractor and  *)
(* page extractors of scraping_functions.py and the validation/processing  *)
(* pipeline and session state of app.py.                                   *)
(*                                                                         *)
(* Text is a sequence of one-character strings.  Lengths are in tenths of  *)
(* a millimetre (reference space) so that every coordinate of the source   *)
(* is an integer; page sizes are in points.  A Python value is a record    *)
(* [t, n, f, s]: t is the type tag, (n, f) the decimal n * 10^-f of a      *)
(* float (n alone for an int), s the characters of a str.  The outcome of  *)
(* a call is [exc, val]: exc is "none" or the name of the exception that   *)
(* left the call.                                                          *)
(***************************************************************************)
EXTENDS Integers, Sequences, FiniteSets, TLC

VARIABLES
    call,                   \* the function applied last and its arguments
    ret,                    \* the outcome of that call
    doc,                    \* the document being extracted / processed
    pc,                     \* position inside trigger_processing / process_pdf
    step,                   \* loop index i of process_pdf
    frames,                 \* extracted_data_frames of process_pdf
    base_names,             \* base_names of process_pdf
    all_successful,         \* all_successful of process_pdf
    progress_container,     \* the warnings and the status process_pdf has shown
    validated,              \* history: the document is_valid_cev_v2_pdf accepted
    file,                   \* the file handed to trigger_processing
    clock,                  \* time.time(), counted in calls
    uploaded_file_bytes,    \* st.session_state.uploaded_file_bytes
    extracted_data,         \* st.session_state.extracted_data
    processing_done,        \* st.session_state.processing_done
    file_name,              \* st.session_state.file_name
    last_uploaded_file_id,  \* st.session_state.last_uploaded_file_id
    cache                   \* the lru_cache of normalize_coordinates

vars == <<call, ret, doc, pc, step, frames, base_names, all_successful,
          progress_container, validated, file, clock, uploaded_file_bytes,
          extracted_data,
          processing_done, file_name, last_uploaded_file_id, cache>>

sessionVars == <<uploaded_file_bytes, extracted_data, processing_done,
                 file_name, last_uploaded_file_id>>

procVars == <<doc, pc, step, frames, base_names, all_successful,
              progress_container, validated, file, clock, cache>>

----------------------------------------------------------------------------
(* Python values and call outcomes *)

None == [t |-> "None", n |-> 0, f |-> 0, s |-> <<>>]

PyStr(s) == [t |-> "str", n |-> 0, f |-> 0, s |-> s]

PyInt(n) == [t |-> "int", n |-> n, f |-> 0, s |-> <<>>]

RECURSIVE NormDec(_, _)
NormDec(m, f) ==
    IF f > 0 /\ m % 10 = 0 THEN NormDec(m \div 10, f - 1) ELSE <<m, f>>

PyFloat(m, f) ==
    LET d == NormDec(m, f)
    IN  [t |-> "float", n |-> d[1], f |-> d[2], s |-> <<>>]

Ok(v) == [exc |-> "none", val |-> v]

Raise(e) == [exc |-> e, val |-> None]

----------------------------------------------------------------------------
(* str methods *)

Digit == {"0", "1", "2", "3", "4", "5", "6", "7", "8", "9"}

DigitVal == [c \in Digit |->
    CASE c = "0" -> 0 [] c = "1" -> 1 [] c = "2" -> 2 [] c = "3" -> 3
      [] c = "4" -> 4 [] c = "5" -> 5 [] c = "6" -> 6 [] c = "7" -> 7
      [] c = "8" -> 8 [] c = "9" -> 9]

Whitespace == {" ", "\n"}

RECURSIVE LStrip(_)
LStrip(s) ==
    IF s # <<>> /\ Head(s) \in Whitespace THEN LStrip(Tail(s)) ELSE s

RECURSIVE RStrip(_)
RStrip(s) ==
    IF s # <<>> /\ s[Len(s)] \in Whitespace
    THEN RStrip(SubSeq(s, 1, Len(s) - 1)) ELSE s

Strip(s) == RStrip(LStrip(s))

Replace(s, old, new) == [i \in 1..Len(s) |-> IF s[i] = old THEN new ELSE s[i]]

Remove(s, old) == SelectSeq(s, LAMBDA c : c # old)

RemoveFirst(s, old) ==
    IF \E i \in 1..Len(s) : s[i] = old
    THEN LET i == CHOOSE j \in 1..Len(s) :
                      s[j] = old /\ \A k \in 1..(j - 1) : s[k] # old
         IN  SubSeq(s, 1, i - 1) \o SubSeq(s, i + 1, Len(s))
    ELSE s

RECURSIVE Split(_)
Split(s) ==
    IF \E i \in 1..Len(s) : s[i] = "\n"
    THEN LET i == CHOOSE j \in 1..Len(s) :
                      s[j] = "\n" /\ \A k \in 1..(j - 1) : s[k] # "\n"
         IN  <<SubSeq(s, 1, i - 1)>> \o Split(SubSeq(s, i + 1, Len(s)))
    ELSE <<s>>

SplitLines(s) ==
    LET p == Split(s)
    IN  IF p[Len(p)] = <<>> THEN SubSeq(p, 1, Len(p) - 1) ELSE p

IsDigit(s) == s # <<>> /\ \A i \in 1..Len(s) : s[i] \in Digit

RECURSIVE ToNat(_)
ToNat(s) ==
    IF s = <<>> THEN 0
    ELSE 10 * ToNat(SubSeq(s, 1, Len(s) - 1)) + DigitVal[s[Len(s)]]

Unsigned(s) == IF s # <<>> /\ s[1] \in {"-", "+"} THEN Tail(s) ELSE s

Signed(s, n) == IF s # <<>> /\ s[1] = "-" THEN 0 - n ELSE n

\* float(s): optional sign, digits with at most one point, at least one digit
ToFloat(s) ==
    LET t == Strip(s)
        b == Unsigned(t)
        d == Remove(b, ".")
    IN  IF IsDigit(d) /\ Len(b) - Len(d) <= 1
        THEN LET p == IF Len(b) = Len(d) THEN Len(b)
                      ELSE CHOOSE j \in 1..Len(b) : b[j] = "."
             IN  Ok(PyFloat(Signed(t, ToNat(d)), Len(b) - p))
        ELSE Raise("ValueError")

\* int(s): optional sign followed by digits only
ToInt(s) ==
    LET t == Strip(s)
        b == Unsigned(t)
    IN  IF IsDigit(b) THEN Ok(PyInt(Signed(t, ToNat(b)))) ELSE Raise("ValueError")

----------------------------------------------------------------------------
(* Geometry normalizer and region text extractor *)

REPORT_WIDTH == 2159

REPORT_HEIGHT == 3300

\* Numbers of the normalizer.  The coordinates of the template and the page
\* sizes are far from the rounding of binary64: on them the arithmetic is
\* kept exact, a number being the fraction num / den.  Where the arguments
\* range over all floats the arithmetic is that of a binary floating-point
\* format of FloatBits significant bits and exponents -MaxExp..MaxExp, with
\* subnormals, round-to-nearest-even, overflow to inf, and nan for inf * 0:
\* a finite float is m * 2^e.
Frac(n, d) == [k |-> "exact", num |-> n, den |-> d]

Exact(n) == Frac(n, 1)

FloatBits == 3

MaxExp == 3

MinExp == 0 - MaxExp

Float(m, e) == [k |-> "float", m |-> m, e |-> e]

Inf == [k |-> "inf", m |-> 0, e |-> 0]

NaN == [k |-> "nan", m |-> 0, e |-> 0]

RECURSIVE Pow2(_)
Pow2(n) == IF n = 0 THEN 1 ELSE 2 * Pow2(n - 1)

\* the float nearest to (n / d) * 2^e, for n >= 0 and d > 0
RECURSIVE Round(_, _, _)
Round(n, d, e) ==
    IF n = 0 THEN Float(0, MinExp)
    ELSE IF e < MinExp \/ n >= d * Pow2(FloatBits) THEN Round(n, 2 * d, e + 1)
    ELSE IF n < d * Pow2(FloatBits - 1) /\ e > MinExp THEN Round(2 * n, d, e - 1)
    ELSE LET q == n \div d
             r == n % d
             m == IF 2 * r > d \/ (2 * r = d /\ q % 2 = 1) THEN q + 1 ELSE q
             f == IF m = Pow2(FloatBits) THEN Float(Pow2(FloatBits - 1), e + 1)
                  ELSE Float(m, e)
         IN  IF f.e > MaxExp THEN Inf ELSE f

IsZero(a) ==
    CASE a.k = "exact" -> a.num = 0
      [] a.k = "float" -> a.m = 0
      [] OTHER -> FALSE

\* a / b, for b # 0
Div(a, b) ==
    CASE a.k = "exact" -> Frac(a.num * b.den, a.den * b.num)
      [] a.k = "float" -> Round(a.m, b.m, a.e - b.e)
      [] OTHER -> a

\* a * b
Mul(a, b) ==
    CASE a.k = "exact" -> Frac(a.num * b.num, a.den * b.den)
      [] a.k = "float" -> Round(a.m * b.m, 1, a.e + b.e)
      [] a.k = "inf" -> IF IsZero(b) THEN NaN ELSE Inf
      [] OTHER -> NaN

FracLt(a, b) ==
    IF a.den = b.den THEN a.num < b.num ELSE a.num * b.den < b.num * a.den

\* a < b; a comparison with nan is false
Lt(a, b) ==
    CASE a.k = "exact" -> FracLt(a, b)
      [] a.k = "nan" \/ b.k = "nan" -> FALSE
      [] a.k = "inf" -> FALSE
      [] b.k = "inf" -> TRUE
      [] OTHER -> a.m * Pow2(a.e - MinExp) < b.m * Pow2(b.e - MinExp)

\* the same function with the width scale applied to the y axis too
normalize_coordinates_one_scale(x, y, report_width, report_height, page_width, page_height) ==
    IF IsZero(report_width) \/ IsZero(report_height)
    THEN Raise("ZeroDivisionError")
    ELSE Ok(<<Mul(Div(x, report_width), page_width),
              Mul(Div(y, report_width), page_width)>>)

\* rx = (x / report_width) * page_width, ry = (y / report_height) * page_height;
\* a division by zero raises ZeroDivisionError
normalize_coordinates(x, y, report_width, report_height, page_width, page_height) ==
    IF IsZero(report_width) \/ IsZero(report_height)
    THEN Raise("ZeroDivisionError")
    ELSE Ok(<<Mul(Div(x, report_width), page_width),
              Mul(Div(y, report_height), page_height)>>)

\* @lru_cache(maxsize=128)
maxsize == 128

\* a key that leaves the reference and page sizes out
_make_key_of_point(x, y, report_width, report_height, page_width, page_height) ==
    <<x, y>>

\* the key lru_cache makes of a call: the tuple of its positional arguments
_make_key(x, y, report_width, report_height, page_width, page_height) ==
    <<x, y, report_width, report_height, page_width, page_height>>

\* a cache that answers a hit with the result it stored last, whatever its key
lru_cache_wrapper_last_result(c, x, y, report_width, report_height, page_width, page_height) ==
    LET key == _make_key(x, y, report_width, report_height, page_width, page_height)
        result == normalize_coordinates(x, y, report_width, report_height,
                                        page_width, page_height)
    IN  IF \E i \in 1..Len(c) : c[i].key = key
        THEN [out |-> Ok(c[Len(c)].result), hit |-> TRUE, cache |-> c]
        ELSE IF result.exc # "none"
             THEN [out |-> result, hit |-> FALSE, cache |-> c]
             ELSE [out |-> result, hit |-> FALSE,
                   cache |-> Append(IF Len(c) >= maxsize THEN Tail(c) ELSE c,
                                    [key |-> key, result |-> result.val])]

\* normalize_coordinates as decorated, called with the cache c (entries from
\* the least to the most recently used): a hit returns the stored result and
\* makes the entry the most recent, a miss calls the function, stores the
\* result and drops the oldest entry of a full cache; an exception is not
\* stored
lru_cache_wrapper(c, x, y, report_width, report_height, page_width, page_height) ==
    LET key == _make_key(x, y, report_width, report_height, page_width, page_height)
        hit == {i \in 1..Len(c) : c[i].key = key}
    IN  IF hit # {}
        THEN LET i == CHOOSE j \in hit : TRUE
             IN  [out |-> Ok(c[i].result), hit |-> TRUE,
                  cache |-> Append(SubSeq(c, 1, i - 1) \o SubSeq(c, i + 1, Len(c)),
                                   c[i])]
        ELSE LET result == normalize_coordinates(x, y, report_width, report_height,
                                                 page_width, page_height)
             IN  IF result.exc # "none"
                 THEN [out |-> result, hit |-> FALSE, cache |-> c]
                 ELSE [out |-> result, hit |-> FALSE,
                       cache |-> Append(IF Len(c) >= maxsize THEN Tail(c) ELSE c,
                                        [key |-> key, result |-> result.val])]

\* the two calls extract_text_from_area makes for the corners of a valid
\* area, the second with the cache the first one left
normalized_corners(c, page, area) ==
    CHOOSE r \in UNION
        {{[n1 |-> n1.out, n2 |-> n2.out, cache |-> n2.cache,
           hits |-> (IF n1.hit THEN 1 ELSE 0) + (IF n2.hit THEN 1 ELSE 0)] :
              n2 \in {lru_cache_wrapper(
                          n1.cache, Exact(area[3]), Exact(area[4]),
                          Exact(REPORT_WIDTH), Exact(REPORT_HEIGHT),
                          Exact(page.width), Exact(page.height))}} :
           n1 \in {lru_cache_wrapper(
                       c, Exact(area[1]), Exact(area[2]), Exact(REPORT_WIDTH),
                       Exact(REPORT_HEIGHT), Exact(page.width),
                       Exact(page.height))}} : TRUE

\* one call of extract_text_from_area in a run: what the cached calls
\* returned for the area (run.view), the cache they leave and the hits so
\* far; an area that is not a rectangle is rejected before any call
ReadArea(run, page, area) ==
    IF area[1] >= area[3] \/ area[2] >= area[4] THEN run
    ELSE CHOOSE r \in
             {[view |-> (area :> <<n.n1, n.n2>>) @@ run.view,
               cache |-> n.cache, hits |-> run.hits + n.hits] :
                 n \in {normalized_corners(run.cache, page, area)}} : TRUE

\* the calls of extract_text_from_area on areas[lo], ..., areas[hi], in order
RECURSIVE ReadAreas(_, _, _, _, _)
ReadAreas(run, page, areas, lo, hi) ==
    IF lo > hi THEN run
    ELSE IF lo = hi THEN ReadArea(run, page, areas[lo])
    ELSE CHOOSE r \in
             {ReadAreas(half, page, areas, (lo + hi) \div 2 + 1, hi) :
                 half \in {ReadAreas(run, page, areas, lo, (lo + hi) \div 2)}} : TRUE

\* fitz.Rect(rx1, ry1, rx2, ry2)
Rect(p1, p2) == [x0 |-> p1[1], y0 |-> p1[2], x1 |-> p2[1], y1 |-> p2[2]]

RectIsEmpty(r) == ~ Lt(r.x0, r.x1) \/ ~ Lt(r.y0, r.y1)

\* The text layer of a page: the text placed at a region of the template,
\* addressed in page space.  An empty rectangle contains no character.
get_textbox(page, r) ==
    IF page.raises THEN Raise("RuntimeError")
    ELSE IF RectIsEmpty(r) THEN Ok(<<>>)
    ELSE LET a == <<(r.x0.num \div page.width), (r.y0.num \div page.height),
                    (r.x1.num \div page.width), (r.y1.num \div page.height)>>
         IN  IF a \in DOMAIN page.layer THEN Ok(page.layer[a]) ELSE Ok(page.base)

\* an argument passed as area: a tuple or some other object (list, None)
Tuple(c) == [isTuple |-> TRUE, c |-> c]

NotATuple(c) == [isTuple |-> FALSE, c |-> c]

\* extract_text_from_area without its try/except around the text-layer query
extract_text_from_area_uncaught(page, area) ==
    IF ~ page.isPage THEN Raise("TypeError")
    ELSE IF ~ area.isTuple \/ Len(area.c) # 4 THEN Raise("TypeError")
    ELSE LET n1 == normalize_coordinates(
                       Exact(area.c[1]), Exact(area.c[2]), Exact(REPORT_WIDTH),
                       Exact(REPORT_HEIGHT), Exact(page.width), Exact(page.height))
             n2 == normalize_coordinates(
                       Exact(area.c[3]), Exact(area.c[4]), Exact(REPORT_WIDTH),
                       Exact(REPORT_HEIGHT), Exact(page.width), Exact(page.height))
             t == get_textbox(page, Rect(n1.val, n2.val))
         IN  IF area.c[1] >= area.c[3] \/ area.c[2] >= area.c[4]
             THEN Ok(PyStr(<<>>))
             ELSE IF t.exc # "none" THEN t ELSE Ok(PyStr(Strip(t.val)))

extract_text_from_area(page, area) ==
    IF ~ page.isPage THEN Raise("TypeError")
    ELSE IF ~ area.isTuple \/ Len(area.c) # 4 THEN Raise("TypeError")
    ELSE LET x1 == area.c[1]
             y1 == area.c[2]
             x2 == area.c[3]
             y2 == area.c[4]
             n1 == IF area.c \in DOMAIN page.view THEN page.view[area.c][1]
                   ELSE normalize_coordinates(
                            Exact(x1), Exact(y1), Exact(REPORT_WIDTH),
                            Exact(REPORT_HEIGHT), Exact(page.width),
                            Exact(page.height))
             n2 == IF area.c \in DOMAIN page.view THEN page.view[area.c][2]
                   ELSE normalize_coordinates(
                            Exact(x2), Exact(y2), Exact(REPORT_WIDTH),
                            Exact(REPORT_HEIGHT), Exact(page.width),
                            Exact(page.height))
         IN  IF x1 >= x2 \/ y1 >= y2 THEN Ok(PyStr(<<>>))
             ELSE IF n1.exc # "none" \/ n2.exc # "none" THEN Ok(PyStr(<<>>))
             ELSE LET t == get_textbox(page, Rect(n1.val, n2.val))
                  IN  IF t.exc # "none" THEN Ok(PyStr(<<>>))
                      ELSE Ok(PyStr(Strip(t.val)))

----------------------------------------------------------------------------
(* Documents *)

\* the unit suffix "[W/m2K]" is one symbol of a text
UNIT == "[W/m2K]"

NotAPage == [isPage |-> FALSE, width |-> 0, height |-> 0, raises |-> FALSE,
             layer |-> <<>>, base |-> <<>>, view |-> <<>>]

\* the fitz.Page at index i of an open document d
PageOf(d, i) ==
    [isPage |-> TRUE, width |-> d.width, height |-> d.height,
     raises |-> i \in d.unreadable,
     layer |-> [a \in {k[2] : k \in {q \in DOMAIN d.layer : q[1] = i}}
                    |-> d.layer[<<i, a>>]],
     base |-> d.base, view |-> d.view]

\* pdf_report[i]
LoadPage(d, i) ==
    IF i >= d.page_count THEN Raise("IndexError")
    ELSE IF i \in d.broken THEN Raise("RuntimeError")
    ELSE Ok(PageOf(d, i))

\* the stripped text of one region of a loaded page
Field(page, coords) == extract_text_from_area(page, Tuple(coords)).val.s

----------------------------------------------------------------------------
(* Field coercions of the page extractors *)

\* the exceptions the page extractors catch: (RuntimeError, IndexError, ValueError)
Caught == {"RuntimeError", "IndexError", "ValueError"}

EmptyDict == <<>>

Min(S) == CHOOSE x \in S : \A y \in S : x <= y

Max(S) == CHOOSE x \in S : \A y \in S : x >= y

RECURSIVE Pow10(_)
Pow10(k) == IF k = 0 THEN 1 ELSE 10 * Pow10(k - 1)

DecLt(a, b) == a.n * Pow10(b.f) < b.n * Pow10(a.f)

boundaries ==
    <<PyFloat(-35, 2), PyFloat(-1, 1), PyFloat(2, 1), PyFloat(4, 1),
      PyFloat(55, 2), PyFloat(7, 1), PyFloat(85, 2), PyFloat(100, 0)>>

grades == <<"G", "F", "E", "D", "C", "B", "A", "A+">>

\* bisect_left(a, x) on a sorted list: the number of elements below x
bisect_left(a, x) == Cardinality({i \in 1..Len(a) : DecLt(a[i], x)})

\* the grade mapping with bisect_right: thresholds as lower-inclusive edges
_from_procentaje_ahorro_to_letra_bisect_right(porcentaje_ahorro) ==
    IF porcentaje_ahorro.t = "None" THEN Raise("TypeError")
    ELSE LET idx == Cardinality({i \in 1..Len(boundaries) :
                                    ~ DecLt(porcentaje_ahorro, boundaries[i])})
         IN  IF 0 <= idx /\ idx < Len(grades)
             THEN Ok(PyStr(<<grades[idx + 1]>>)) ELSE Ok(None)

\* bisect_left(boundaries, None) raises TypeError: None is not ordered
_from_procentaje_ahorro_to_letra(porcentaje_ahorro) ==
    IF porcentaje_ahorro.t = "None" THEN Raise("TypeError")
    ELSE LET idx == bisect_left(boundaries, porcentaje_ahorro)
         IN  IF 0 <= idx /\ idx < Len(grades)
             THEN Ok(PyStr(<<grades[idx + 1]>>)) ELSE Ok(None)

\* next((int(item) for item in text.splitlines()
\*       if item.replace('-', '').isdigit()), None)
PorcentajeScan(text) ==
    LET ls == SplitLines(text)
        c == {i \in 1..Len(ls) : IsDigit(Remove(ls[i], "-"))}
    IN  IF c = {} THEN Ok(None) ELSE ToInt(ls[Min(c)])

\* x.splitlines()[-1]
LastLine(text) ==
    LET ls == SplitLines(text)
    IN  IF ls = <<>> THEN Raise("IndexError") ELSE Ok(ls[Len(ls)])

\* x.split('\n')[-1]
LastPiece(text) == LET ps == Split(text) IN ps[Len(ps)]

\* the conversion of one extracted text, by the shape of its expression
Coerce(kind, text) ==
    CASE kind = "strip" -> Ok(PyStr(Strip(text)))
      [] kind = "flat" -> Ok(PyStr(Strip(Remove(text, "\n"))))
      [] kind = "first_strip" -> Ok(PyStr(Strip(Split(text)[1])))
      [] kind = "last_strip" ->
            LET l == LastLine(text)
            IN  IF l.exc # "none" THEN l ELSE Ok(PyStr(Strip(l.val)))
      [] kind = "float" -> ToFloat(Strip(Replace(text, ",", ".")))
      [] kind = "float_last" ->
            LET l == LastLine(text)
            IN  IF l.exc # "none" THEN l
                ELSE ToFloat(Strip(Replace(l.val, ",", ".")))
      [] kind = "float_last_or_none" ->
            LET ls == SplitLines(text)
            IN  IF ls = <<>> \/ ls[Len(ls)] = <<>> THEN Ok(None)
                ELSE ToFloat(Strip(Replace(ls[Len(ls)], ",", ".")))
      [] kind = "float_unit_or_none" ->
            IF text = <<>> THEN Ok(None)
            ELSE ToFloat(Replace(Remove(text, UNIT), ",", "."))
      [] kind = "float_or_none" ->
            IF text = <<>> THEN Ok(None) ELSE ToFloat(Replace(text, ",", "."))
      [] kind = "float_guard" ->
            IF IsDigit(RemoveFirst(Replace(text, ",", "."), "."))
            THEN ToFloat(Replace(text, ",", ".")) ELSE Ok(None)
      [] kind = "float_last_guard" ->
            IF IsDigit(RemoveFirst(Replace(LastPiece(text), ",", "."), "."))
            THEN ToFloat(Replace(LastPiece(text), ",", ".")) ELSE Ok(None)
      [] kind = "float_last_guard_comma" ->
            IF IsDigit(RemoveFirst(LastPiece(text), ","))
            THEN ToFloat(Replace(LastPiece(text), ",", ".")) ELSE Ok(None)

\* a dict display: the entries are evaluated in order, the first exception
\* leaves the display
EvalDict(keys, E) ==
    LET bad == {i \in 1..Len(keys) : E[keys[i]].exc # "none"}
    IN  IF bad = {} THEN Ok([k \in {keys[i] : i \in 1..Len(keys)} |-> E[k].val])
        ELSE Raise(E[keys[Min(bad)]].exc)

\* a list comprehension over texts: the first exception leaves it
EvalList(outs) ==
    LET bad == {i \in 1..Len(outs) : outs[i].exc # "none"}
    IN  IF bad = {} THEN Ok([i \in 1..Len(outs) |-> outs[i].val])
        ELSE Raise(outs[Min(bad)].exc)

\* except (RuntimeError, IndexError, ValueError): return {}
Catch(out) == IF out.exc \in Caught THEN Ok(EmptyDict) ELSE out

\* isinstance(pdf_report, fitz.Document) and i < pdf_report.page_count, then
\* pdf_report[i]; a failure raises ValueError or what the page load raises
CheckedPage(d, i) ==
    IF d.kind # "Document" \/ d.closed THEN Raise("ValueError")
    ELSE IF i >= d.page_count THEN Raise("ValueError")
    ELSE LoadPage(d, i)

----------------------------------------------------------------------------
(* Data frames: nrows rows, col maps a column name to its nrows values *)

EmptyFrame == [nrows |-> 0, col |-> <<>>]

DfEmpty(df) == df.nrows = 0 \/ DOMAIN df.col = {}

Pad(s, n) == [i \in 1..n |-> IF i <= Len(s) THEN s[i] ELSE None]

\* pd.DataFrame.from_dict(data_dict, orient='index').T on scalar values
FrameOfScalars(dict) ==
    IF DOMAIN dict = {} THEN EmptyFrame
    ELSE [nrows |-> 1, col |-> [k \in DOMAIN dict |-> <<dict[k]>>]]

\* pd.DataFrame.from_dict(data_dict, orient='index').T on list values: short
\* lists are filled with None at their end
FrameOfLists(dict) ==
    LET n == Max({Len(dict[k]) : k \in DOMAIN dict})
    IN  [nrows |-> n, col |-> [k \in DOMAIN dict |-> Pad(dict[k], n)]]

DropColumn(df, c) ==
    [nrows |-> df.nrows, col |-> [k \in DOMAIN df.col \ {c} |-> df.col[k]]]

\* try: df = from_dict(data_dict); except Exception: empty frame. The
\* extractors below call their _as_dict function once and build the frame
\* from what it returned.
ScalarFrame(out) ==
    IF out.exc # "none" THEN Ok(EmptyFrame) ELSE Ok(FrameOfScalars(out.val))

----------------------------------------------------------------------------
(* Page 1 *)

\* COORDINATES of get_informe_cev_v2_pagina1_as_dict, in tenths of a millimetre
P1_COORDINATES ==
  [
    tipo_evaluacion |-> <<83, 103, 1656, 188>>,
    codigo_evaluacion |-> <<731, 200, 956, 251>>,
    region |-> <<280, 266, 800, 318>>,
    comuna |-> <<292, 330, 800, 382>>,
    direccion |-> <<313, 391, 1553, 443>>,
    rol_vivienda_proyecto |-> <<574, 456, 748, 508>>,
    tipo_vivienda |-> <<459, 517, 1553, 569>>,
    superficie_interior_util_m2 |-> <<542, 583, 660, 635>>,
    porcentaje_ahorro |-> <<56, 786, 1658, 1913>>,
    demanda_calefaccion_kwh_m2_ano |-> <<156, 2200, 730, 2300>>,
    demanda_enfriamiento_kwh_m2_ano |-> <<900, 2200, 1515, 2300>>,
    demanda_total_kwh_m2_ano |-> <<1670, 2250, 2090, 2450>>,
    emitida_el |-> <<345, 2475, 570, 2528>>
  ]

\* the keys of the result dictionary, in the order the source evaluates them
P1_KEYS ==
  <<
    "tipo_evaluacion",
    "codigo_evaluacion",
    "region",
    "comuna",
    "direccion",
    "rol_vivienda_proyecto",
    "tipo_vivienda",
    "superficie_interior_util_m2",
    "porcentaje_ahorro",
    "letra_eficiencia_energetica_dem",
    "demanda_calefaccion_kwh_m2_ano",
    "demanda_enfriamiento_kwh_m2_ano",
    "demanda_total_kwh_m2_ano",
    "emitida_el"
  >>

\* the conversion the source applies to each key
P1_KIND ==
  [
    tipo_evaluacion |-> "strip",
    codigo_evaluacion |-> "strip",
    region |-> "strip",
    comuna |-> "strip",
    direccion |-> "strip",
    rol_vivienda_proyecto |-> "strip",
    tipo_vivienda |-> "strip",
    superficie_interior_util_m2 |-> "float",
    porcentaje_ahorro |-> "scan",
    letra_eficiencia_energetica_dem |-> "letra",
    demanda_calefaccion_kwh_m2_ano |-> "float_last",
    demanda_enfriamiento_kwh_m2_ano |-> "float_last",
    demanda_total_kwh_m2_ano |-> "float_last",
    emitida_el |-> "last_strip"
  ]

get_informe_cev_v2_pagina1_as_dict(pdf_report) ==
    LET p == CheckedPage(pdf_report, 0)
        fields == [k \in DOMAIN P1_COORDINATES |-> Field(p.val, P1_COORDINATES[k])]
        porcentaje_ahorro == PorcentajeScan(fields.porcentaje_ahorro)
        E == [k \in DOMAIN P1_KIND |->
                CASE P1_KIND[k] = "scan" -> Ok(porcentaje_ahorro.val)
                  [] P1_KIND[k] = "letra" ->
                        IF porcentaje_ahorro.val.t = "None" THEN Raise("TypeError")
                        ELSE _from_procentaje_ahorro_to_letra(
                                 PyFloat(porcentaje_ahorro.val.n, 2))
                  [] OTHER -> Coerce(P1_KIND[k], fields[k])]
    IN  IF p.exc # "none" THEN Catch(p)
        ELSE IF porcentaje_ahorro.exc # "none" THEN Catch(porcentaje_ahorro)
        ELSE Catch(EvalDict(P1_KEYS, E))

get_informe_cev_v2_pagina1_as_dataframe(pdf_report) ==
    CHOOSE df \in {ScalarFrame(data_dict) :
                      data_dict \in {get_informe_cev_v2_pagina1_as_dict(pdf_report)}} : TRUE

----------------------------------------------------------------------------
(* Page 2 *)

\* COORDINATES of get_informe_cev_v2_pagina2_as_dict
P2_COORDINATES ==
  [
    region |-> <<404, 474, 950, 517>>,
    comuna |-> <<404, 532, 950, 574>>,
    direccion |-> <<404, 589, 950, 631>>,
    rol_vivienda |-> <<404, 646, 950, 689>>,
    tipo_vivienda |-> <<404, 702, 950, 744>>,
    zona_termica |-> <<1438, 475, 1461, 517>>,
    superficie_interior_util_m2 |-> <<1438, 533, 1500, 575>>,
    solicitado_por |-> <<1438, 589, 1855, 631>>,
    evaluado_por |-> <<1438, 647, 2105, 689>>,
    codigo_evaluacion |-> <<1438, 702, 1606, 745>>,
    demanda_calefaccion_kwh_m2_ano |-> <<994, 996, 1076, 1052>>,
    demanda_enfriamiento_kwh_m2_ano |-> <<992, 1209, 1075, 1265>>,
    demanda_total_kwh_m2_ano |-> <<1015, 1351, 1306, 1514>>,
    demanda_total_bis_kwh_m2_ano |-> <<392, 1598, 1228, 1660>>,
    demanda_total_referencia_kwh_m2_ano |-> <<169, 1683, 1462, 1732>>,
    porcentaje_ahorro |-> <<1520, 1626, 2015, 1687>>,
    muro_principal_descripcion |-> <<462, 2022, 1845, 2091>>,
    muro_principal_exigencia_W_m2_K |-> <<1855, 2042, 2095, 2091>>,
    muro_secundario_descripcion |-> <<462, 2092, 1845, 2151>>,
    muro_secundario_exigencia_W_m2_K |-> <<1855, 2115, 2095, 2143>>,
    piso_principal_descripcion |-> <<467, 2166, 1845, 2194>>,
    piso_principal_exigencia_W_m2_K |-> <<1855, 2164, 2095, 2237>>,
    puerta_principal_descripcion |-> <<462, 2235, 1845, 2302>>,
    puerta_principal_exigencia_W_m2_K |-> <<1855, 2239, 2095, 2302>>,
    techo_principal_descripcion |-> <<462, 2305, 1845, 2370>>,
    techo_principal_exigencia_W_m2_K |-> <<1855, 2305, 2095, 2372>>,
    techo_secundario_descripcion |-> <<462, 2372, 1845, 2441>>,
    techo_secundario_exigencia_W_m2_K |-> <<1855, 2372, 2095, 2441>>,
    superficie_vidriada_principal_descripcion |-> <<462, 2442, 1845, 2510>>,
    superficie_vidriada_principal_exigencia |-> <<1855, 2443, 2095, 2510>>,
    superficie_vidriada_secundaria_descripcion |-> <<462, 2513, 1845, 2580>>,
    superficie_vidriada_secundaria_exigencia |-> <<1855, 2513, 2095, 2580>>,
    ventilacion_rah_descripcion |-> <<462, 2583, 1845, 2650>>,
    ventilacion_rah_exigencia |-> <<1855, 2583, 2095, 2650>>,
    infiltraciones_rah_descripcion |-> <<462, 2653, 1845, 2720>>,
    infiltraciones_rah_exigencia |-> <<1855, 2653, 2095, 2720>>
  ]

\* the keys of the result dictionary, in the order the source evaluates them
P2_KEYS ==
  <<
    "region",
    "comuna",
    "direccion",
    "rol_vivienda",
    "tipo_vivienda",
    "zona_termica",
    "superficie_interior_util_m2",
    "solicitado_por",
    "evaluado_por",
    "codigo_evaluacion",
    "demanda_calefaccion_kwh_m2_ano",
    "demanda_enfriamiento_kwh_m2_ano",
    "demanda_total_kwh_m2_ano",
    "demanda_total_bis_kwh_m2_ano",
    "demanda_total_referencia_kwh_m2_ano",
    "porcentaje_ahorro",
    "muro_principal_descripcion",
    "muro_principal_exigencia_W_m2_K",
    "muro_secundario_descripcion",
    "muro_secundario_exigencia_W_m2_K",
    "piso_principal_descripcion",
    "piso_principal_exigencia_W_m2_K",
    "puerta_principal_descripcion",
    "puerta_principal_exigencia_W_m2_K",
    "techo_principal_descripcion",
    "techo_principal_exigencia_W_m2_K",
    "techo_secundario_descripcion",
    "techo_secundario_exigencia_W_m2_K",
    "superficie_vidriada_principal_descripcion",
    "superficie_vidriada_principal_exigencia",
    "superficie_vidriada_secundaria_descripcion",
    "superficie_vidriada_secundaria_exigencia",
    "ventilacion_rah_descripcion",
    "ventilacion_rah_exigencia",
    "infiltraciones_rah_descripcion",
    "infiltraciones_rah_exigencia"
  >>

\* the conversion the source applies to each key
P2_KIND ==
  [
    region |-> "strip",
    comuna |-> "strip",
    direccion |-> "strip",
    rol_vivienda |-> "strip",
    tipo_vivienda |-> "strip",
    zona_termica |-> "strip",
    superficie_interior_util_m2 |-> "float",
    solicitado_por |-> "strip",
    evaluado_por |-> "strip",
    codigo_evaluacion |-> "strip",
    demanda_calefaccion_kwh_m2_ano |-> "float_last",
    demanda_enfriamiento_kwh_m2_ano |-> "float_last",
    demanda_total_kwh_m2_ano |-> "float_last",
    demanda_total_bis_kwh_m2_ano |-> "float_last",
    demanda_total_referencia_kwh_m2_ano |-> "float_last",
    porcentaje_ahorro |-> "float_last_or_none",
    muro_principal_descripcion |-> "flat",
    muro_principal_exigencia_W_m2_K |-> "float_unit_or_none",
    muro_secundario_descripcion |-> "flat",
    muro_secundario_exigencia_W_m2_K |-> "float_unit_or_none",
    piso_principal_descripcion |-> "flat",
    piso_principal_exigencia_W_m2_K |-> "float_unit_or_none",
    puerta_principal_descripcion |-> "flat",
    puerta_principal_exigencia_W_m2_K |-> "flat",
    techo_principal_descripcion |-> "flat",
    techo_principal_exigencia_W_m2_K |-> "float_unit_or_none",
    techo_secundario_descripcion |-> "flat",
    techo_secundario_exigencia_W_m2_K |-> "float_unit_or_none",
    superficie_vidriada_principal_descripcion |-> "flat",
    superficie_vidriada_principal_exigencia |-> "flat",
    superficie_vidriada_secundaria_descripcion |-> "flat",
    superficie_vidriada_secundaria_exigencia |-> "flat",
    ventilacion_rah_descripcion |-> "flat",
    ventilacion_rah_exigencia |-> "flat",
    infiltraciones_rah_descripcion |-> "flat",
    infiltraciones_rah_exigencia |-> "flat"
  ]

get_informe_cev_v2_pagina2_as_dict(pdf_report) ==
    LET p == CheckedPage(pdf_report, 1)
        fields == [k \in DOMAIN P2_COORDINATES |-> Field(p.val, P2_COORDINATES[k])]
        E == [k \in DOMAIN P2_KIND |-> Coerce(P2_KIND[k], fields[k])]
    IN  IF p.exc # "none" THEN Catch(p) ELSE Catch(EvalDict(P2_KEYS, E))

get_informe_cev_v2_pagina2_as_dataframe(pdf_report) ==
    CHOOSE df \in {ScalarFrame(data_dict) :
                      data_dict \in {get_informe_cev_v2_pagina2_as_dict(pdf_report)}} : TRUE

----------------------------------------------------------------------------
(* Page 3, consumos *)

\* COORDINATES of get_informe_cev_v2_pagina3_consumos_as_dict
P3C_COORDINATES ==
  [
    codigo_evaluacion |-> <<623, 307, 881, 351>>,
    agua_caliente_sanitaria_kwh_m2 |-> <<781, 739, 980, 767>>,
    agua_caliente_sanitaria_perc |-> <<987, 739, 1163, 767>>,
    iluminacion_kwh_m2 |-> <<792, 781, 983, 814>>,
    iluminacion_per |-> <<987, 781, 1163, 814>>,
    calefaccion_kwh_m2 |-> <<792, 822, 983, 866>>,
    calefaccion_kwh_per |-> <<987, 822, 1163, 866>>,
    energia_renovable_no_convencional_kwh_m2 |-> <<792, 872, 983, 910>>,
    energia_renovable_no_convencional_per |-> <<987, 872, 1163, 910>>,
    consumo_total_kwh_m2 |-> <<1180, 740, 1480, 860>>,
    emisiones_kgco2_m2_ano |-> <<1715, 690, 1835, 742>>,
    calefaccion_descripcion_proy |-> <<766, 1014, 1555, 1053>>,
    calefaccion_consumo_proy_kwh |-> <<1570, 1014, 1960, 1053>>,
    calefaccion_consumo_proy_per |-> <<1980, 1014, 2070, 1053>>,
    iluminacion_descripcion_proy |-> <<766, 1062, 1555, 1100>>,
    iluminacion_consumo_proy_kwh |-> <<1570, 1062, 1960, 1100>>,
    iluminacion_consumo_proy_per |-> <<1980, 1062, 2070, 1100>>,
    agua_caliente_sanitaria_descripcion_proy |-> <<766, 1112, 1555, 1150>>,
    agua_caliente_sanitaria_consumo_proy_kwh |-> <<1570, 1112, 1960, 1150>>,
    agua_caliente_sanitaria_consumo_proy_per |-> <<1980, 1112, 2070, 1150>>,
    energia_renovable_no_convencional_descripcion_proy |-> <<766, 1158, 1555, 1200>>,
    energia_renovable_no_convencional_consumo_proy_kwh |-> <<1570, 1158, 1960, 1200>>,
    energia_renovable_no_convencional_consumo_proy_per |-> <<1980, 1158, 2070, 1200>>,
    consumo_total_requerido_proy_kwh |-> <<1570, 1210, 1960, 1250>>,
    calefaccion_descripcion_ref |-> <<766, 1361, 1555, 1401>>,
    calefaccion_consumo_ref_kwh |-> <<1570, 1361, 1960, 1401>>,
    calefaccion_consumo_ref_per |-> <<1980, 1361, 2070, 1401>>,
    iluminacion_descripcion_ref |-> <<766, 1407, 1555, 1447>>,
    iluminacion_consumo_ref_kwh |-> <<1570, 1407, 1960, 1447>>,
    iluminacion_consumo_ref_per |-> <<1980, 1407, 2070, 1447>>,
    agua_caliente_sanitaria_descripcion_ref |-> <<766, 1452, 1555, 1492>>,
    agua_caliente_sanitaria_consumo_ref_kwh |-> <<1570, 1452, 1960, 1492>>,
    agua_caliente_sanitaria_consumo_ref_per |-> <<1980, 1452, 2070, 1492>>,
    energia_renovable_no_convencional_descripcion_ref |-> <<766, 1508, 1555, 1548>>,
    energia_renovable_no_convencional_consumo_ref_kwh |-> <<1570, 1508, 1960, 1548>>,
    energia_renovable_no_convencional_consumo_ref_per |-> <<1980, 1508, 2070, 1548>>,
    consumo_total_requerido_ref_kwh |-> <<1570, 1560, 1960, 1600>>,
    consumo_ep_calefaccion_kwh |-> <<870, 1760, 1040, 1790>>,
    consumo_ep_agua_caliente_sanitaria_kwh |-> <<870, 1800, 1040, 1835>>,
    consumo_ep_iluminacion_kwh |-> <<870, 1840, 1040, 1875>>,
    consumo_ep_ventiladores_kwh |-> <<870, 1880, 1040, 1915>>,
    generacion_ep_fotovoltaicos_kwh |-> <<870, 1990, 1040, 2025>>,
    aporte_fotovoltaicos_consumos_basicos_kwh |-> <<870, 2032, 1040, 2060>>,
    diferencia_fotovoltaica_para_consumo_kwh |-> <<870, 2069, 1040, 2102>>,
    aporte_solar_termica_consumos_basicos_kwh |-> <<870, 2180, 1040, 2210>>,
    aporte_solar_termica_agua_caliente_sanitaria_kwh |-> <<870, 2225, 1040, 2255>>,
    total_consumo_ep_antes_fotovoltaica_kwh |-> <<1920, 1760, 2080, 1795>>,
    aporte_fotovoltaicos_consumos_basicos_kwh_bis |-> <<1920, 1800, 2080, 1835>>,
    consumos_basicos_a_suplir_kwh |-> <<1920, 1843, 2080, 1870>>,
    consumo_total_ep_obj_kwh |-> <<1920, 1990, 2080, 2025>>,
    consumo_total_ep_ref_kwh |-> <<1920, 2028, 2080, 2065>>,
    coeficiente_energetico_c |-> <<1920, 2070, 2080, 2105>>
  ]

\* the keys of the result dictionary, in the order the source evaluates them
P3C_KEYS ==
  <<
    "codigo_evaluacion",
    "agua_caliente_sanitaria_kwh_m2",
    "agua_caliente_sanitaria_perc",
    "iluminacion_kwh_m2",
    "iluminacion_per",
    "calefaccion_kwh_m2",
    "calefaccion_kwh_per",
    "energia_renovable_no_convencional_kwh_m2",
    "energia_renovable_no_convencional_per",
    "consumo_total_kwh_m2",
    "emisiones_kgco2_m2_ano",
    "calefaccion_descripcion_proy",
    "calefaccion_consumo_proy_kwh",
    "calefaccion_consumo_proy_per",
    "iluminacion_descripcion_proy",
    "iluminacion_consumo_proy_kwh",
    "iluminacion_consumo_proy_per",
    "agua_caliente_sanitaria_descripcion_proy",
    "agua_caliente_sanitaria_consumo_proy_kwh",
    "agua_caliente_sanitaria_consumo_proy_per",
    "energia_renovable_no_convencional_descripcion_proy",
    "energia_renovable_no_convencional_consumo_proy_kwh",
    "energia_renovable_no_convencional_consumo_proy_per",
    "consumo_total_requerido_proy_kwh",
    "calefaccion_descripcion_ref",
    "calefaccion_consumo_ref_kwh",
    "calefaccion_consumo_ref_per",
    "iluminacion_descripcion_ref",
    "iluminacion_consumo_ref_kwh",
    "iluminacion_consumo_ref_per",
    "agua_caliente_sanitaria_descripcion_ref",
    "agua_caliente_sanitaria_consumo_ref_kwh",
    "agua_caliente_sanitaria_consumo_ref_per",
    "energia_renovable_no_convencional_descripcion_ref",
    "energia_renovable_no_convencional_consumo_ref_kwh",
    "energia_renovable_no_convencional_consumo_ref_per",
    "consumo_total_requerido_ref_kwh",
    "consumo_ep_calefaccion_kwh",
    "consumo_ep_agua_caliente_sanitaria_kwh",
    "consumo_ep_iluminacion_kwh",
    "consumo_ep_ventiladores_kwh",
    "generacion_ep_fotovoltaicos_kwh",
    "aporte_fotovoltaicos_consumos_basicos_kwh",
    "diferencia_fotovoltaica_para_consumo_kwh",
    "aporte_solar_termica_consumos_basicos_kwh",
    "aporte_solar_termica_agua_caliente_sanitaria_kwh",
    "total_consumo_ep_antes_fotovoltaica_kwh",
    "aporte_fotovoltaicos_consumos_basicos_kwh_bis",
    "consumos_basicos_a_suplir_kwh",
    "consumo_total_ep_obj_kwh",
    "consumo_total_ep_ref_kwh",
    "coeficiente_energetico_c"
  >>

\* the conversion the source applies to each key
P3C_KIND ==
  [
    codigo_evaluacion |-> "strip",
    agua_caliente_sanitaria_kwh_m2 |-> "float_guard",
    agua_caliente_sanitaria_perc |-> "float_guard",
    iluminacion_kwh_m2 |-> "float_guard",
    iluminacion_per |-> "float_guard",
    calefaccion_kwh_m2 |-> "float_guard",
    calefaccion_kwh_per |-> "float_guard",
    energia_renovable_no_convencional_kwh_m2 |-> "float_guard",
    energia_renovable_no_convencional_per |-> "float_guard",
    consumo_total_kwh_m2 |-> "float_guard",
    emisiones_kgco2_m2_ano |-> "float_guard",
    calefaccion_descripcion_proy |-> "strip",
    calefaccion_consumo_proy_kwh |-> "float_last_guard",
    calefaccion_consumo_proy_per |-> "float_last_guard",
    iluminacion_descripcion_proy |-> "first_strip",
    iluminacion_consumo_proy_kwh |-> "float_last_guard",
    iluminacion_consumo_proy_per |-> "float_last_guard",
    agua_caliente_sanitaria_descripcion_proy |-> "strip",
    agua_caliente_sanitaria_consumo_proy_kwh |-> "float_last_guard",
    agua_caliente_sanitaria_consumo_proy_per |-> "float_last_guard",
    energia_renovable_no_convencional_descripcion_proy |-> "strip",
    energia_renovable_no_convencional_consumo_proy_kwh |-> "float_last_guard",
    energia_renovable_no_convencional_consumo_proy_per |-> "float_last_guard",
    consumo_total_requerido_proy_kwh |-> "float_last_guard",
    calefaccion_descripcion_ref |-> "strip",
    calefaccion_consumo_ref_kwh |-> "float_last_guard",
    calefaccion_consumo_ref_per |-> "float_last_guard",
    iluminacion_descripcion_ref |-> "strip",
    iluminacion_consumo_ref_kwh |-> "float_last_guard",
    iluminacion_consumo_ref_per |-> "float_last_guard",
    agua_caliente_sanitaria_descripcion_ref |-> "strip",
    agua_caliente_sanitaria_consumo_ref_kwh |-> "float_last_guard_comma",
    agua_caliente_sanitaria_consumo_ref_per |-> "float_last_guard",
    energia_renovable_no_convencional_descripcion_ref |-> "strip",
    energia_renovable_no_convencional_consumo_ref_kwh |-> "float_last_guard",
    energia_renovable_no_convencional_consumo_ref_per |-> "float_last_guard",
    consumo_total_requerido_ref_kwh |-> "float_last_guard",
    consumo_ep_calefaccion_kwh |-> "float_guard",
    consumo_ep_agua_caliente_sanitaria_kwh |-> "float_guard",
    consumo_ep_iluminacion_kwh |-> "float_guard",
    consumo_ep_ventiladores_kwh |-> "float_guard",
    generacion_ep_fotovoltaicos_kwh |-> "float_guard",
    aporte_fotovoltaicos_consumos_basicos_kwh |-> "float_guard",
    diferencia_fotovoltaica_para_consumo_kwh |-> "float_guard",
    aporte_solar_termica_consumos_basicos_kwh |-> "float_guard",
    aporte_solar_termica_agua_caliente_sanitaria_kwh |-> "float_guard",
    total_consumo_ep_antes_fotovoltaica_kwh |-> "float_guard",
    aporte_fotovoltaicos_consumos_basicos_kwh_bis |-> "float_guard",
    consumos_basicos_a_suplir_kwh |-> "float_guard",
    consumo_total_ep_obj_kwh |-> "float_guard",
    consumo_total_ep_ref_kwh |-> "float_guard",
    coeficiente_energetico_c |-> "float_guard"
  ]

get_informe_cev_v2_pagina3_consumos_as_dict(pdf_report) ==
    LET p == CheckedPage(pdf_report, 2)
        fields == [k \in DOMAIN P3C_COORDINATES |-> Field(p.val, P3C_COORDINATES[k])]
        E == [k \in DOMAIN P3C_KIND |-> Coerce(P3C_KIND[k], fields[k])]
    IN  IF p.exc # "none" THEN Catch(p) ELSE Catch(EvalDict(P3C_KEYS, E))

get_informe_cev_v2_pagina3_consumos_as_dataframe(pdf_report) ==
    CHOOSE df \in {ScalarFrame(data_dict) :
                      data_dict \in {get_informe_cev_v2_pagina3_consumos_as_dict(pdf_report)}} : TRUE

----------------------------------------------------------------------------
(* Page 7 *)

\* COORDINATES of get_informe_cev_v2_pagina7_as_dict
P7_COORDINATES ==
  [
    codigo_evaluacion |-> <<635, 309, 840, 361>>,
    mandante_nombre |-> <<275, 906, 960, 947>>,
    mandante_rut |-> <<275, 954, 960, 994>>,
    evaluador_nombre |-> <<1311, 906, 2050, 947>>,
    evaluador_rut |-> <<1311, 954, 1967, 994>>,
    evaluador_rol_minvu |-> <<1500, 999, 1660, 1037>>
  ]

\* the keys of the result dictionary, in the order the source evaluates them
P7_KEYS ==
  <<
    "codigo_evaluacion",
    "mandante_nombre",
    "mandante_rut",
    "evaluador_nombre",
    "evaluador_rut",
    "evaluador_rol_minvu"
  >>

\* the conversion the source applies to each key
P7_KIND ==
  [
    codigo_evaluacion |-> "strip",
    mandante_nombre |-> "strip",
    mandante_rut |-> "strip",
    evaluador_nombre |-> "strip",
    evaluador_rut |-> "strip",
    evaluador_rol_minvu |-> "strip"
  ]

get_informe_cev_v2_pagina7_as_dict(pdf_report) ==
    LET p == CheckedPage(pdf_report, 6)
        fields == [k \in DOMAIN P7_COORDINATES |-> Field(p.val, P7_COORDINATES[k])]
        E == [k \in DOMAIN P7_KIND |-> Coerce(P7_KIND[k], fields[k])]
    IN  IF p.exc # "none" THEN Catch(p) ELSE Catch(EvalDict(P7_KEYS, E))

get_informe_cev_v2_pagina7_as_dataframe(pdf_report) ==
    CHOOSE df \in {ScalarFrame(data_dict) :
                      data_dict \in {get_informe_cev_v2_pagina7_as_dict(pdf_report)}} : TRUE

----------------------------------------------------------------------------
(* Page 3, envolvente *)

ENV_ROWS == 10

ENV_BRIDGE_CELLS == 8

ENV_DY == 42

\* the single rectangles of COORDINATES
ENV_COORDINATES ==
  [
    codigo_evaluacion |-> <<623, 307, 881, 351>>,
    elementos_opacos_area_m2 |-> <<195, 2450, 470, 2875>>,
    elementos_opacos_U_W_m2_K |-> <<478, 2450, 605, 2875>>,
    elementos_traslucidos_area_m2 |-> <<682, 2450, 895, 2830>>,
    elementos_traslucidos_U_W_m2_K |-> <<904, 2450, 1031, 2830>>
  ]

\* the lists of rectangles of COORDINATES, one rectangle per cell
ENV_CELLS ==
  [
    P01_W_K |-> [i \in 1..ENV_BRIDGE_CELLS |->
        <<1155, 2500 + (i - 1) * ENV_DY, 1245, 2535 + (i - 1) * ENV_DY>>],
    P02_W_K |-> [i \in 1..ENV_BRIDGE_CELLS |->
        <<1262, 2500 + (i - 1) * ENV_DY, 1369, 2535 + (i - 1) * ENV_DY>>],
    P03_W_K |-> [i \in 1..ENV_BRIDGE_CELLS |->
        <<1390, 2500 + (i - 1) * ENV_DY, 1482, 2535 + (i - 1) * ENV_DY>>],
    P04_W_K |-> [i \in 1..ENV_BRIDGE_CELLS |->
        <<1490, 2500 + (i - 1) * ENV_DY, 1600, 2535 + (i - 1) * ENV_DY>>],
    P05_W_K |-> [i \in 1..ENV_BRIDGE_CELLS |->
        <<1613, 2500 + (i - 1) * ENV_DY, 1712, 2535 + (i - 1) * ENV_DY>>],
    UA_phiL |-> [i \in 1..ENV_ROWS |->
        <<1905, 2455 + (i - 1) * ENV_DY, 2010, 2490 + (i - 1) * ENV_DY>>]
  ]

orientacion ==
    <<PyStr(<<"Horiz">>), PyStr(<<"N">>), PyStr(<<"NE">>), PyStr(<<"E">>),
      PyStr(<<"SE">>), PyStr(<<"S">>), PyStr(<<"SO">>), PyStr(<<"O">>),
      PyStr(<<"NO">>), PyStr(<<"Pisos">>)>>

ENV_KEYS ==
    <<"codigo_evaluacion", "orientacion", "elementos_opacos_area_m2",
      "elementos_opacos_U_W_m2_K", "elementos_traslucidos_area_m2",
      "elementos_traslucidos_U_W_m2_K", "P01_W_K", "P02_W_K", "P03_W_K",
      "P04_W_K", "P05_W_K", "UA_phiL">>

\* s[-n:]
LastN(s, n) == IF Len(s) <= n THEN s ELSE SubSeq(s, Len(s) - n + 1, Len(s))

\* [float(x.replace(',', '.')) for x in text.splitlines()[-n:]]
BlockFloats(text, n) ==
    LET ls == LastN(SplitLines(text), n)
    IN  EvalList([i \in 1..Len(ls) |-> ToFloat(Replace(ls[i], ",", "."))])

\* [float(x.splitlines()[-1].replace(',', '.')) for x in texts]
CellFloats(texts) ==
    EvalList([i \in 1..Len(texts) |->
        LET l == LastLine(texts[i])
        IN  IF l.exc # "none" THEN l ELSE ToFloat(Replace(l.val, ",", "."))])

\* a zero appended only, whatever is asked before the values
WithZeros_after_only(out, before, after) ==
    IF out.exc # "none" THEN out
    ELSE Ok(out.val \o (IF after THEN <<PyInt(0)>> ELSE <<>>))

\* out + [0], [0] + out + [0]
WithZeros(out, before, after) ==
    IF out.exc # "none" THEN out
    ELSE Ok((IF before THEN <<PyInt(0)>> ELSE <<>>) \o out.val
              \o (IF after THEN <<PyInt(0)>> ELSE <<>>))

get_informe_cev_v2_pagina3_envolvente_as_dict(pdf_report) ==
    LET p == CheckedPage(pdf_report, 2)
        fields == [k \in DOMAIN ENV_COORDINATES |-> Field(p.val, ENV_COORDINATES[k])]
        cells == [k \in DOMAIN ENV_CELLS |->
                    [i \in 1..Len(ENV_CELLS[k]) |-> Field(p.val, ENV_CELLS[k][i])]]
        E == [k \in {ENV_KEYS[i] : i \in 1..Len(ENV_KEYS)} |->
                CASE k = "codigo_evaluacion" -> Coerce("strip", fields[k])
                  [] k = "orientacion" -> Ok(orientacion)
                  [] k \in {"elementos_opacos_area_m2", "elementos_opacos_U_W_m2_K"} ->
                        BlockFloats(fields[k], 10)
                  [] k \in {"elementos_traslucidos_area_m2",
                            "elementos_traslucidos_U_W_m2_K"} ->
                        WithZeros(BlockFloats(fields[k], 9), FALSE, TRUE)
                  [] k = "UA_phiL" -> CellFloats(cells[k])
                  [] OTHER -> WithZeros(CellFloats(cells[k]), TRUE, TRUE)]
    IN  IF p.exc # "none" THEN Catch(p) ELSE Catch(EvalDict(ENV_KEYS, E))

\* data_dict['codigo_evaluacion'] = [...] * 10 raises KeyError on {}; every
\* exception gives the empty frame
EnvolventeFrame(out) ==
    LET data_dict == [k \in DOMAIN out.val |->
                        IF k = "codigo_evaluacion"
                        THEN [i \in 1..10 |-> out.val[k]] ELSE out.val[k]]
    IN  IF out.exc # "none" THEN Ok(EmptyFrame)
        ELSE IF "codigo_evaluacion" \notin DOMAIN out.val THEN Ok(EmptyFrame)
        ELSE Ok(DropColumn(FrameOfLists(data_dict), "codigo_evaluacion"))

get_informe_cev_v2_pagina3_envolvente_as_dataframe(pdf_report) ==
    CHOOSE df \in {EnvolventeFrame(data_dict) :
                      data_dict \in {get_informe_cev_v2_pagina3_envolvente_as_dict(pdf_report)}} : TRUE

----------------------------------------------------------------------------
(* Page 4 *)

MONTHS == 12

P4_DX == 135

P4_CODIGO == <<623, 307, 881, 361>>

\* the first and the last line (y1, y2) of each monthly series
P4_SERIES ==
  [
    demanda_calef_viv_eval_kwh |-> <<1395, 1435>>,
    demanda_calef_viv_ref_kwh |-> <<1441, 1478>>,
    demanda_enfri_viv_eval_kwh |-> <<1614, 1654>>,
    demanda_enfri_viv_ref_kwh |-> <<1660, 1688>>,
    sobrecalentamiento_viv_eval_hr |-> <<2549, 2586>>,
    sobrecalentamiento_viv_ref_hr |-> <<2596, 2631>>,
    sobreenfriamiento_viv_eval_hr |-> <<2750, 2786>>,
    sobreenfriamiento_viv_ref_hr |-> <<2794, 2831>>
  ]

P4_CELLS ==
    [k \in DOMAIN P4_SERIES |-> [i \in 1..MONTHS |->
        <<420 + (i - 1) * P4_DX, P4_SERIES[k][1],
          535 + (i - 1) * P4_DX, P4_SERIES[k][2]>>]]

P4_KEYS ==
    <<"codigo_evaluacion", "mes_id", "demanda_calef_viv_eval_kwh",
      "demanda_calef_viv_ref_kwh", "demanda_enfri_viv_eval_kwh",
      "demanda_enfri_viv_ref_kwh", "sobrecalentamiento_viv_eval_hr",
      "sobrecalentamiento_viv_ref_hr", "sobreenfriamiento_viv_eval_hr",
      "sobreenfriamiento_viv_ref_hr">>

mes_mapping ==
    <<"Enero", "Febrero", "Marzo", "Abril", "Mayo", "Junio", "Julio",
      "Agosto", "Septiembre", "Octubre", "Noviembre", "Diciembre">>

\* get_informe_cev_v2_pagina4_as_dict that leaves the empty cells out of a
\* series instead of holding their place with None
get_informe_cev_v2_pagina4_as_dict_skipping_empty(pdf_report) ==
    LET p == CheckedPage(pdf_report, 3)
        codigo == Field(p.val, P4_CODIGO)
        Filled(x) == x # <<>>
        cells == [k \in DOMAIN P4_CELLS |->
                    SelectSeq([i \in 1..Len(P4_CELLS[k]) |->
                                  Field(p.val, P4_CELLS[k][i])], Filled)]
        E == [k \in {P4_KEYS[i] : i \in 1..Len(P4_KEYS)} |->
                CASE k = "codigo_evaluacion" -> Coerce("strip", codigo)
                  [] k = "mes_id" -> Ok([i \in 1..12 |-> PyInt(i)])
                  [] OTHER ->
                        EvalList([i \in 1..Len(cells[k]) |->
                                    Coerce("float_or_none", cells[k][i])])]
    IN  IF p.exc # "none" THEN Catch(p) ELSE Catch(EvalDict(P4_KEYS, E))

get_informe_cev_v2_pagina4_as_dict(pdf_report) ==
    LET p == CheckedPage(pdf_report, 3)
        codigo == Field(p.val, P4_CODIGO)
        cells == [k \in DOMAIN P4_CELLS |->
                    [i \in 1..Len(P4_CELLS[k]) |-> Field(p.val, P4_CELLS[k][i])]]
        E == [k \in {P4_KEYS[i] : i \in 1..Len(P4_KEYS)} |->
                CASE k = "codigo_evaluacion" -> Coerce("strip", codigo)
                  [] k = "mes_id" -> Ok([i \in 1..12 |-> PyInt(i)])
                  [] OTHER ->
                        EvalList([i \in 1..Len(cells[k]) |->
                                    Coerce("float_or_none", cells[k][i])])]
    IN  IF p.exc # "none" THEN Catch(p) ELSE Catch(EvalDict(P4_KEYS, E))

\* the frame of the monthly lists, mes_id mapped to the month names
MonthlyFrame(out) ==
    LET data_dict == [k \in DOMAIN out.val |->
                        IF k = "codigo_evaluacion"
                        THEN [i \in 1..12 |-> out.val[k]] ELSE out.val[k]]
        df == DropColumn(FrameOfLists(data_dict), "codigo_evaluacion")
        mes == [i \in 1..df.nrows |->
                    IF df.col.mes_id[i].t = "int" /\ df.col.mes_id[i].n \in 1..12
                    THEN PyStr(<<mes_mapping[df.col.mes_id[i].n]>>) ELSE None]
    IN  IF out.exc # "none" THEN Ok(EmptyFrame)
        ELSE IF "codigo_evaluacion" \notin DOMAIN out.val THEN Ok(EmptyFrame)
        ELSE Ok([nrows |-> df.nrows,
                 col |-> [k \in (DOMAIN df.col \ {"mes_id"}) \cup {"mes"} |->
                            IF k = "mes" THEN mes ELSE df.col[k]]])

get_informe_cev_v2_pagina4_as_dataframe(pdf_report) ==
    CHOOSE df \in {MonthlyFrame(data_dict) :
                      data_dict \in {get_informe_cev_v2_pagina4_as_dict(pdf_report)}} : TRUE

----------------------------------------------------------------------------
(* Pages 5 and 6 *)

P5_CODIGO == <<623, 307, 881, 351>>

\* page = pdf_report[page_number] outside any try; one row of the evaluation
\* code and a 'content' column holding None
PlaceholderFrame(pdf_report, page_number) ==
    LET p == IF pdf_report.kind # "Document" THEN Raise("TypeError")
             ELSE IF pdf_report.closed THEN Raise("ValueError")
             ELSE LoadPage(pdf_report, page_number)
    IN  IF p.exc # "none" THEN p
        ELSE Ok([nrows |-> 1,
                 col |-> [codigo_evaluacion |->
                              <<extract_text_from_area(p.val, Tuple(P5_CODIGO)).val>>,
                          content |-> <<None>>]])

get_informe_cev_v2_pagina5_as_dataframe(pdf_report) ==
    PlaceholderFrame(pdf_report, 4)

get_informe_cev_v2_pagina6_as_dataframe(pdf_report) ==
    PlaceholderFrame(pdf_report, 5)

----------------------------------------------------------------------------
(* The processing steps of process_pdf *)

\* processing_steps: the extractor names and the base names, in order
processing_steps ==
    <<[func |-> "get_informe_cev_v2_pagina1_as_dataframe", base_name |-> "Página 1"],
      [func |-> "get_informe_cev_v2_pagina2_as_dataframe", base_name |-> "Página 2"],
      [func |-> "get_informe_cev_v2_pagina3_consumos_as_dataframe",
       base_name |-> "Página 3 - Consumos"],
      [func |-> "get_informe_cev_v2_pagina3_envolvente_as_dataframe",
       base_name |-> "Página 3 - Envolvente"],
      [func |-> "get_informe_cev_v2_pagina4_as_dataframe", base_name |-> "Página 4"],
      [func |-> "get_informe_cev_v2_pagina5_as_dataframe", base_name |-> "Página 5"],
      [func |-> "get_informe_cev_v2_pagina6_as_dataframe", base_name |-> "Página 6"],
      [func |-> "get_informe_cev_v2_pagina7_as_dataframe", base_name |-> "Página 7"]>>

\* func(pdf_document)
Apply(func, d) ==
    CASE func = "get_informe_cev_v2_pagina1_as_dataframe" ->
            get_informe_cev_v2_pagina1_as_dataframe(d)
      [] func = "get_informe_cev_v2_pagina2_as_dataframe" ->
            get_informe_cev_v2_pagina2_as_dataframe(d)
      [] func = "get_informe_cev_v2_pagina3_consumos_as_dataframe" ->
            get_informe_cev_v2_pagina3_consumos_as_dataframe(d)
      [] func = "get_informe_cev_v2_pagina3_envolvente_as_dataframe" ->
            get_informe_cev_v2_pagina3_envolvente_as_dataframe(d)
      [] func = "get_informe_cev_v2_pagina4_as_dataframe" ->
            get_informe_cev_v2_pagina4_as_dataframe(d)
      [] func = "get_informe_cev_v2_pagina5_as_dataframe" ->
            get_informe_cev_v2_pagina5_as_dataframe(d)
      [] func = "get_informe_cev_v2_pagina6_as_dataframe" ->
            get_informe_cev_v2_pagina6_as_dataframe(d)
      [] func = "get_informe_cev_v2_pagina7_as_dataframe" ->
            get_informe_cev_v2_pagina7_as_dataframe(d)

\* the zero-based page index each extractor reads
PageIndex == <<0, 1, 2, 2, 3, 4, 5, 6>>

\* the areas of a COORDINATES dictionary in the order of its items, the
\* rectangles of a list one after the other
RECURSIVE AreasInOrder(_, _, _)
AreasInOrder(keys, single, lists) ==
    IF keys = <<>> THEN <<>>
    ELSE LET k == Head(keys)
         IN  (IF k \in DOMAIN single THEN <<single[k]>>
              ELSE IF k \in DOMAIN lists THEN lists[k] ELSE <<>>)
                 \o AreasInOrder(Tail(keys), single, lists)

\* the areas each extractor passes to extract_text_from_area, in call order
AreaSequence ==
    <<AreasInOrder(P1_KEYS, P1_COORDINATES, <<>>),
      AreasInOrder(P2_KEYS, P2_COORDINATES, <<>>),
      AreasInOrder(P3C_KEYS, P3C_COORDINATES, <<>>),
      AreasInOrder(ENV_KEYS, ENV_COORDINATES, ENV_CELLS),
      AreasInOrder(P4_KEYS, [codigo_evaluacion |-> P4_CODIGO], P4_CELLS),
      <<P5_CODIGO>>,
      <<P5_CODIGO>>,
      AreasInOrder(P7_KEYS, P7_COORDINATES, <<>>)>>

\* the calls of normalize_coordinates extractor i makes on d in a process
\* whose cache is c: what they return for each area, the cache they leave and
\* the number of hits.  An extractor that fails before it has its page makes
\* no call.
RunView(c, i, d) ==
    CHOOSE r \in
        {IF p.exc # "none" THEN [view |-> <<>>, cache |-> c, hits |-> 0]
         ELSE ReadAreas([view |-> <<>>, cache |-> c, hits |-> 0],
                        p.val, areas, 1, Len(areas)) :
            p \in {CheckedPage(d, PageIndex[i])}, areas \in {AreaSequence[i]}} : TRUE

\* processing_steps[i].func(d) for each extractor i of views, on what its
\* calls of normalize_coordinates returned
Outcomes(views, d) ==
    [i \in DOMAIN views |->
        Apply(processing_steps[i].func, [d EXCEPT !.view = views[i]])]

\* processing_steps[i].func(d) in a process whose cache is c: the outcome of
\* the call, the cache it leaves and the number of cache hits
ApplyCached(c, i, d) ==
    CHOOSE r \in
        {[out |-> Outcomes((i :> run.view), d)[i], cache |-> run.cache,
          hits |-> run.hits] : run \in {RunView(c, i, d)}} : TRUE

----------------------------------------------------------------------------
(* Document validation *)

\* str.upper(), word by word
Upper(w) ==
    CASE w = "Pre" -> "PRE"
      [] w = "Calificación" -> "CALIFICACIÓN"
      [] w = "Energética" -> "ENERGÉTICA"
      [] w = "Informe" -> "INFORME"
      [] OTHER -> w

\* needle in text
Contains(text, needle) ==
    \E i \in 0..(Len(text) - Len(needle)) :
        \A j \in 1..Len(needle) : text[i + j] = needle[j]

PRECALIFICACION_ENERGETICA == <<"PRE", "CALIFICACIÓN", " ", "ENERGÉTICA">>

CALIFICACION_ENERGETICA == <<"CALIFICACIÓN", " ", "ENERGÉTICA">>

\* pdf_doc[0].get_text("text")
GetText(d, i) ==
    LET p == LoadPage(d, i)
    IN  IF p.exc # "none" THEN p
        ELSE IF p.val.raises THEN Raise("RuntimeError")
        ELSE Ok(d.text1)

\* is_valid_cev_v2_pdf with the text compared as extracted, not upper-cased
is_valid_cev_v2_pdf_as_typed(pdf_doc) ==
    IF pdf_doc.kind = "None" THEN Ok(FALSE)
    ELSE IF pdf_doc.kind # "Document" THEN Raise("TypeError")
    ELSE IF pdf_doc.closed THEN Raise("ValueError")
    ELSE IF pdf_doc.page_count = 0 \/ pdf_doc.page_count < 7 THEN Ok(FALSE)
    ELSE LET text == GetText(pdf_doc, 0)
         IN  IF text.exc # "none" THEN Ok(FALSE)
             ELSE Ok(\/ Contains(text.val, PRECALIFICACION_ENERGETICA)
                     \/ Contains(text.val, CALIFICACION_ENERGETICA))

\* `not pdf_doc or len(pdf_doc) < 7` is evaluated before the try block
is_valid_cev_v2_pdf(pdf_doc) ==
    IF pdf_doc.kind = "None" THEN Ok(FALSE)
    ELSE IF pdf_doc.kind # "Document" THEN Raise("TypeError")
    ELSE IF pdf_doc.closed THEN Raise("ValueError")
    ELSE IF pdf_doc.page_count = 0 \/ pdf_doc.page_count < 7 THEN Ok(FALSE)
    ELSE LET text == GetText(pdf_doc, 0)
             text_upper == [i \in 1..Len(text.val) |-> Upper(text.val[i])]
         IN  IF text.exc # "none" THEN Ok(FALSE)
             ELSE Ok(\/ Contains(text_upper, PRECALIFICACION_ENERGETICA)
                     \/ Contains(text_upper, CALIFICACION_ENERGETICA))

----------------------------------------------------------------------------
(* Initial values shared by the specifications *)

NoCall == [fn |-> "none"]

NoDoc ==
    [kind |-> "None", closed |-> FALSE, page_count |-> 0,
     width |-> 0, height |-> 0, broken |-> {}, unreadable |-> {},
     text1 |-> <<>>, layer |-> <<>>, base |-> <<>>, view |-> <<>>]

NoFile == [name |-> "", bytes |-> "", id |-> 0, opens |-> FALSE, doc |-> NoDoc]

NoneId == [kind |-> "None", name |-> "", time |-> 0]

NoneData == [isNone |-> TRUE, list |-> <<>>]

\* a progress container on which process_pdf has shown nothing
NoProgress == [warnings |-> <<>>, status |-> "none"]

InitSession ==
    /\ uploaded_file_bytes = "None"
    /\ extracted_data = NoneData
    /\ processing_done = FALSE
    /\ file_name = "None"
    /\ last_uploaded_file_id = NoneId

InitProc ==
    /\ pc = "idle"
    /\ step = 0
    /\ frames = <<>>
    /\ base_names = <<>>
    /\ all_successful = TRUE
    /\ progress_container = NoProgress
    /\ validated = NoDoc
    /\ file = NoFile
    /\ clock = 0
    /\ cache = <<>>

----------------------------------------------------------------------------
(* Specification of the region text extractor, applied to bounded arguments *)

AreaCoords == {0, 100, 200}

AreaArgs ==
    {Tuple(c) : c \in [1..4 -> AreaCoords]}
        \cup {Tuple(<<0, 0, 100>>), Tuple(<<0, 0, 100, 100, 100>>),
              NotATuple(<<0, 0, 100, 100>>), NotATuple(<<>>)}

PageArgs ==
    {NotAPage} \cup
    {[isPage |-> TRUE, width |-> w, height |-> h, raises |-> r,
      layer |-> <<>>, base |-> b, view |-> <<>>] :
        w \in {0, 612}, h \in {0, 936}, r \in BOOLEAN,
        b \in {<<>>, <<" ", "4", "2", "\n">>}}

CallExtractTextFromArea ==
    /\ \E page \in PageArgs, area \in AreaArgs :
         /\ call' = [fn |-> "extract_text_from_area", page |-> page, area |-> area]
         /\ ret' = extract_text_from_area(page, area)
    /\ UNCHANGED <<procVars, sessionVars>>

InitArea ==
    /\ call = NoCall
    /\ ret = Ok(None)
    /\ doc = NoDoc
    /\ InitProc
    /\ InitSession

SpecArea == InitArea /\ [][CallExtractTextFromArea]_vars

\* the failures of a call: a malformed rectangle, a rectangle that is empty
\* after normalization, or a text-layer query that raises
AreaCallFails(page, area) ==
    \/ area.c[1] >= area.c[3]
    \/ area.c[2] >= area.c[4]
    \/ page.width = 0
    \/ page.height = 0
    \/ page.raises

----------------------------------------------------------------------------
(* Documents the extractors are applied to *)

MaxPages == 8

BaseText == <<"4", "2">>

TitleText == <<"Calificación", " ", "Energética">>

SampleTexts ==
    {<<>>,
     <<"x">>,
     <<"1", ",", "5">>,
     <<"x", "\n", "7">>,
     <<"1", "-", "2">>,
     <<"-", "5">>,
     <<"0", ",", "5", UNIT>>,
     <<"1", ".", "2", "3", "4", ",", "5">>}

Range(s) == {s[i] : i \in 1..Len(s)}

\* every region of the template an extractor reads, as <<page index, area>>
Regions ==
    {<<0, P1_COORDINATES[k]>> : k \in DOMAIN P1_COORDINATES}
        \cup {<<1, P2_COORDINATES[k]>> : k \in DOMAIN P2_COORDINATES}
        \cup {<<2, P3C_COORDINATES[k]>> : k \in DOMAIN P3C_COORDINATES}
        \cup {<<2, ENV_COORDINATES[k]>> : k \in DOMAIN ENV_COORDINATES}
        \cup UNION {{<<2, a>> : a \in Range(ENV_CELLS[k])} : k \in DOMAIN ENV_CELLS}
        \cup {<<3, P4_CODIGO>>}
        \cup UNION {{<<3, a>> : a \in Range(P4_CELLS[k])} : k \in DOMAIN P4_CELLS}
        \cup {<<4, P5_CODIGO>>, <<5, P5_CODIGO>>}
        \cup {<<6, P7_COORDINATES[k]>> : k \in DOMAIN P7_COORDINATES}

\* an open document of n pages whose regions all hold BaseText
PlainDoc(n) ==
    [kind |-> "Document", closed |-> FALSE, page_count |-> n,
     width |-> 612, height |-> 936, broken |-> {}, unreadable |-> {},
     text1 |-> TitleText, layer |-> <<>>, base |-> BaseText, view |-> <<>>]

\* documents of every length, documents with one page that fails to load or
\* whose text layer fails, and documents with one region holding another text
Docs ==
    {PlainDoc(n) : n \in 0..MaxPages}
        \cup {[PlainDoc(7) EXCEPT !.broken = {i}] : i \in 0..6}
        \cup {[PlainDoc(7) EXCEPT !.unreadable = {i}] : i \in 0..6}
        \cup {[PlainDoc(7) EXCEPT !.layer = (r :> t)] : r \in Regions, t \in SampleTexts}

----------------------------------------------------------------------------
(* Specification of the page extractors, each applied once to a document *)

CallPagina1AsDict ==
    /\ call.fn = "none"
    /\ call' = [fn |-> "get_informe_cev_v2_pagina1_as_dict", k |-> 1]
    /\ ret' = get_informe_cev_v2_pagina1_as_dict(doc)
    /\ UNCHANGED <<procVars, sessionVars>>

CallPagina2AsDict ==
    /\ call.fn = "none"
    /\ call' = [fn |-> "get_informe_cev_v2_pagina2_as_dict", k |-> 2]
    /\ ret' = get_informe_cev_v2_pagina2_as_dict(doc)
    /\ UNCHANGED <<procVars, sessionVars>>

CallExtractor ==
    /\ call.fn = "none"
    /\ \E k \in 1..Len(processing_steps) :
         /\ call' = [fn |-> processing_steps[k].func, k |-> k]
         /\ ret' = Apply(processing_steps[k].func, doc)
    /\ UNCHANGED <<procVars, sessionVars>>

InitPages ==
    /\ call = NoCall
    /\ ret = Ok(None)
    /\ doc \in Docs
    /\ InitProc
    /\ InitSession

NextPages == CallPagina1AsDict \/ CallPagina2AsDict \/ CallExtractor

SpecPages == InitPages /\ [][NextPages]_vars

\* the value a field of a record has when its text converts, None when not
FieldValue(out) == IF out.exc = "none" THEN out.val ELSE None

\* the record of page 1 in which every field is converted on its own
P1PartialRecord(d) ==
    LET page == PageOf(d, 0)
        fields == [k \in DOMAIN P1_COORDINATES |-> Field(page, P1_COORDINATES[k])]
    IN  [k \in DOMAIN P1_KIND \ {"letra_eficiencia_energetica_dem"} |->
            IF P1_KIND[k] = "scan"
            THEN FieldValue(PorcentajeScan(fields.porcentaje_ahorro))
            ELSE FieldValue(Coerce(P1_KIND[k], fields[k]))]

\* the record of page 2 in which every field is converted on its own
P2PartialRecord(d) ==
    LET page == PageOf(d, 1)
    IN  [k \in DOMAIN P2_KIND |->
            FieldValue(Coerce(P2_KIND[k], Field(page, P2_COORDINATES[k])))]

\* C1: when the page exists and its text layer answers, the page-1 and page-2 extractors raise nothing
\* and return the full record: a numeric field whose text is empty or not a
\* number is None, every other field holds the value extracted for it.
C1_PartialRecord ==
    /\ (call.fn = "get_informe_cev_v2_pagina1_as_dict"
            /\ CheckedPage(doc, 0).exc = "none" /\ doc.unreadable = {}) =>
          /\ ret.exc = "none"
          /\ DOMAIN ret.val = DOMAIN P1_KIND
          /\ \A k \in DOMAIN P1PartialRecord(doc) :
                ret.val[k] = P1PartialRecord(doc)[k]
    /\ (call.fn = "get_informe_cev_v2_pagina2_as_dict"
            /\ CheckedPage(doc, 1).exc = "none" /\ doc.unreadable = {}) =>
          /\ ret.exc = "none"
          /\ DOMAIN ret.val = DOMAIN P2_KIND
          /\ \A k \in DOMAIN P2_KIND : ret.val[k] = P2PartialRecord(doc)[k]

\* C2: when the page exists, whatever text the cells hold, the page-4 table has exactly 12 rows
\* and the envelope table exactly 10 rows.
C2_RowCount ==
    /\ (call.fn = "get_informe_cev_v2_pagina4_as_dataframe"
            /\ CheckedPage(doc, 3).exc = "none" /\ doc.unreadable = {}) =>
          ret.exc = "none" /\ ret.val.nrows = 12
    /\ (call.fn = "get_informe_cev_v2_pagina3_envolvente_as_dataframe"
            /\ CheckedPage(doc, 2).exc = "none" /\ doc.unreadable = {}) =>
          ret.exc = "none" /\ ret.val.nrows = 10

\* C4: each of the eight extractors of process_pdf, applied to a document
\* with fewer pages than its page index requires, returns an empty record
\* and does not raise.
C4_EmptyWhenPageMissing ==
    (/\ call.fn \in {processing_steps[k].func : k \in 1..Len(processing_steps)}
     /\ doc.kind = "Document" /\ ~ doc.closed
     /\ doc.page_count <= PageIndex[call.k]) =>
        ret.exc = "none" /\ DfEmpty(ret.val)

----------------------------------------------------------------------------
(* Specification of the validator, applied once to an argument *)

MaxTitleLen == 4

TitleWords == {"Pre", "Calificación", " ", "ENERGÉTICA", "Informe"}

Titles == UNION {[1..n -> TitleWords] : n \in 0..MaxTitleLen}

\* None, an object without a length, a closed document, documents whose first
\* page fails, and open documents of several lengths and first-page texts
ValidArgs ==
    {NoDoc, [NoDoc EXCEPT !.kind = "object"], [PlainDoc(7) EXCEPT !.closed = TRUE],
     [PlainDoc(7) EXCEPT !.broken = {0}], [PlainDoc(7) EXCEPT !.unreadable = {0}]}
        \cup {[PlainDoc(n) EXCEPT !.text1 = t] :
                n \in {0, 5, 6, 7, MaxPages}, t \in Titles}

CallIsValid ==
    /\ call.fn = "none"
    /\ call' = [fn |-> "is_valid_cev_v2_pdf"]
    /\ ret' = is_valid_cev_v2_pdf(doc)
    /\ UNCHANGED <<procVars, sessionVars>>

InitValid ==
    /\ call = NoCall
    /\ ret = Ok(None)
    /\ doc \in ValidArgs
    /\ InitProc
    /\ InitSession

SpecValid == InitValid /\ [][CallIsValid]_vars

\* the first-page text, in upper case, holds one of the two title phrases
HasTitle(d) ==
    LET u == [i \in 1..Len(d.text1) |-> Upper(d.text1[i])]
    IN  \E i \in 1..Len(u), n \in {3, 4} :
            /\ i + n - 1 <= Len(u)
            /\ SubSeq(u, i, i + n - 1) \in
                    {PRECALIFICACION_ENERGETICA, CALIFICACION_ENERGETICA}

\* C7: on an open document whose first page can be read, is_valid_cev_v2_pdf
\* returns true exactly when the document has at least 7 pages and the
\* upper-cased text of page 1 contains one of the two title phrases.
C7_ValidIffSevenPagesAndTitle ==
    (/\ call.fn = "is_valid_cev_v2_pdf"
     /\ doc.kind = "Document" /\ ~ doc.closed
     /\ doc.broken = {} /\ doc.unreadable = {}) =>
        /\ ret.exc = "none"
        /\ ret.val = (doc.page_count >= 7 /\ HasTitle(doc))

\* a document of 7 pages whose title is not written in upper case was accepted
C7_Witness ==
    /\ call.fn = "is_valid_cev_v2_pdf"
    /\ doc.page_count = 7
    /\ doc.text1 = <<"Informe", "Calificación", " ", "ENERGÉTICA">>
    /\ ret = Ok(TRUE)

\* C8: is_valid_cev_v2_pdf never raises; an argument without a length, a
\* closed document and a failing page-text query give false.
C8_NeverRaises ==
    call.fn = "is_valid_cev_v2_pdf" =>
        /\ ret.exc = "none"
        /\ (\/ doc.kind # "Document"
            \/ doc.closed
            \/ doc.broken # {}
            \/ doc.unreadable # {}) => ret.val = FALSE

----------------------------------------------------------------------------
(* The application: main hands a file to trigger_processing, which opens,  *)
(* validates and processes it.  pc is the position inside the call and,    *)
(* once it has returned, the path it left by: "invalid", "error", "done".  *)

MaxClock == 2

\* a file: its name, its bytes, the file_id of the upload widget, whether
\* fitz.open accepts the bytes and the document it then gives
File(name, id, opens, d) ==
    [name |-> name, bytes |-> "bytes of " \o name, id |-> id, opens |-> opens,
     doc |-> d]

SAMPLE_PDF_PRECAL_NAME == "9_8_1_13e7982f-3470-5a8d-ba76-0a04e3ee0b7b.pdf"

SAMPLE_PDF_CAL_NAME == "10_192_2_b5ffa84b-d3b4-51c6-afa0-bc3eff628bfa.pdf"

\* the two bundled examples
SampleFiles ==
    {File(SAMPLE_PDF_PRECAL_NAME, 0, TRUE,
          [PlainDoc(7) EXCEPT !.text1 = <<"Informe", "Pre", "Calificación", " ",
                                          "Energética">>]),
     File(SAMPLE_PDF_CAL_NAME, 0, TRUE, PlainDoc(7))}

\* the files a user uploads: reports, reports with a deviant cell or page,
\* documents that are no report, and bytes that are no PDF
UploadFiles ==
    {File("report.pdf", 1, TRUE, PlainDoc(7)),
     File("long.pdf", 2, TRUE, PlainDoc(MaxPages)),
     File("short.pdf", 3, TRUE, PlainDoc(5)),
     File("empty.pdf", 4, TRUE, PlainDoc(0)),
     File("letter.pdf", 5, TRUE, [PlainDoc(7) EXCEPT !.text1 = <<"Informe">>]),
     File("scan.pdf", 6, TRUE, [PlainDoc(7) EXCEPT !.unreadable = {0}]),
     File("damaged.pdf", 7, FALSE, NoDoc),
     File("blank_cell.pdf", 8, TRUE,
          [PlainDoc(7) EXCEPT
              !.layer = (<<0, P1_COORDINATES.superficie_interior_util_m2>> :> <<>>)]),
     File("text_cell.pdf", 9, TRUE,
          [PlainDoc(7) EXCEPT !.layer = (<<3, P4_CELLS.demanda_calef_viv_eval_kwh[3]>>
                                            :> <<"x">>)]),
     File("page5.pdf", 10, TRUE, [PlainDoc(7) EXCEPT !.broken = {4}]),
     File("page6.pdf", 11, TRUE, [PlainDoc(7) EXCEPT !.broken = {5}]),
     File("page7.pdf", 12, TRUE, [PlainDoc(7) EXCEPT !.broken = {6}]),
     File("mixed.pdf", 13, TRUE,
          [PlainDoc(7) EXCEPT
              !.broken = {4},
              !.layer = (<<0, P1_COORDINATES.superficie_interior_util_m2>> :> <<>>)])}

\* uploaded_file_widget.file_id
WidgetFileId(f) == [kind |-> "file_id", name |-> f.name, time |-> f.id]

\* the positions at which no call of trigger_processing is running
Returned == {"idle", "invalid", "error", "done"}

\* reset_state that leaves the file details in the session
reset_state_data_only ==
    /\ extracted_data' = NoneData
    /\ processing_done' = FALSE
    /\ UNCHANGED <<uploaded_file_bytes, file_name, last_uploaded_file_id>>

reset_state ==
    /\ uploaded_file_bytes' = "None"
    /\ extracted_data' = NoneData
    /\ processing_done' = FALSE
    /\ file_name' = "None"
    /\ last_uploaded_file_id' = NoneId

\* trigger_processing, up to the try block: the session takes the file; the
\* run of main that calls it has rendered no frame yet
StartProcessing(f) ==
    /\ pc \in Returned
    /\ clock < MaxClock
    /\ clock' = clock + 1
    /\ file' = f
    /\ uploaded_file_bytes' = f.bytes
    /\ file_name' = f.name
    /\ last_uploaded_file_id' = [kind |-> "str", name |-> f.name, time |-> clock + 1]
    /\ processing_done' = FALSE
    /\ extracted_data' = NoneData
    /\ pc' = "open"
    /\ doc' = NoDoc
    /\ validated' = NoDoc
    /\ step' = 0
    /\ frames' = <<>>
    /\ base_names' = <<>>
    /\ all_successful' = TRUE
    /\ progress_container' = NoProgress
    /\ call' = NoCall
    /\ ret' = Ok(None)
    /\ UNCHANGED cache

\* main: the upload widget holds a file whose file_id differs from the last
\* processed id
MainUpload ==
    \E f \in UploadFiles :
        /\ WidgetFileId(f) # last_uploaded_file_id
        /\ StartProcessing(f)

\* main: one of the two example buttons was pressed
MainSample == \E f \in SampleFiles : StartProcessing(f)

\* with fitz.open(stream=file_bytes, filetype="pdf") as pdf_doc
Open ==
    /\ pc = "open"
    /\ IF file.opens
       THEN /\ doc' = file.doc
            /\ pc' = "validate"
            /\ UNCHANGED sessionVars
       ELSE /\ reset_state
            /\ pc' = "error"
            /\ UNCHANGED doc
    /\ UNCHANGED <<call, ret, step, frames, base_names, all_successful,
                   progress_container,
                   validated, file, clock, cache>>

\* the test of line 163 that never rejects
rejected_never(valid) == FALSE

\* `if not is_valid_cev_v2_pdf(pdf_doc)`, on what the validator returned
rejected(valid) == ~ valid.val

\* is_valid_cev_v2_pdf(pdf_doc): an invalid document, or an exception, resets
\* the session and ends the call
Validate ==
    /\ pc = "validate"
    /\ \E valid \in {is_valid_cev_v2_pdf(doc)} :
         /\ validated' = IF valid = Ok(TRUE) THEN doc ELSE NoDoc
         /\ IF valid.exc # "none"
            THEN reset_state /\ pc' = "error"
            ELSE IF rejected(valid)
            THEN reset_state /\ pc' = "invalid"
            ELSE UNCHANGED sessionVars /\ pc' = "process"
    /\ UNCHANGED <<call, ret, doc, step, frames, base_names, all_successful,
                   progress_container,
                   file, clock, cache>>

\* the except branch of the loop without its append
append_frame_on_success(data_frames, out) ==
    IF out.exc = "none" THEN Append(data_frames, out.val) ELSE data_frames

\* extracted_data_frames.append(df) / extracted_data_frames.append(pd.DataFrame())
append_frame(data_frames, out) ==
    Append(data_frames, IF out.exc = "none" THEN out.val ELSE EmptyFrame)

\* a loop that is left at the first exception
next_step_or_break(i, out) ==
    IF out.exc = "none" THEN i + 1 ELSE Len(processing_steps)

\* the loop index after step i, whatever the step's outcome
next_step(i, out) == i + 1

\* progress_container.warning(...) of the except branch: the page is named
\* to the user when its extractor raised; an empty frame is only logged
warn_page(progress, base_name, out) ==
    IF out.exc = "none" THEN progress
    ELSE [progress EXCEPT !.warnings = Append(@, base_name)]

\* status_text.success(...) or status_text.warning(...) after the loop
final_status(successful) ==
    IF successful THEN "Procesamiento completado."
    ELSE "Procesamiento completado con errores."

\* process_pdf, one turn of its loop: the extractor of the step is applied to
\* the document, an exception is replaced by an empty frame
ProcessStep ==
    /\ pc = "process"
    /\ step < Len(processing_steps)
    /\ \E r \in {ApplyCached(cache, step + 1, doc)} :
         /\ frames' = append_frame(frames, r.out)
         /\ base_names' = Append(base_names, processing_steps[step + 1].base_name)
         /\ all_successful' = (all_successful /\ r.out.exc = "none")
         /\ progress_container' =
               warn_page(progress_container, processing_steps[step + 1].base_name, r.out)
         /\ step' = next_step(step, r.out)
         /\ cache' = r.cache
    /\ UNCHANGED <<call, ret, doc, pc, validated, file, clock, sessionVars>>

\* an exception leaves process_pdf (a call on the progress container, outside
\* the try of the loop) and reaches the except clause of trigger_processing
ProcessRaises ==
    /\ pc = "process"
    /\ reset_state
    /\ pc' = "error"
    /\ progress_container' = NoProgress
    /\ UNCHANGED <<call, ret, doc, step, frames, base_names, all_successful,
                   validated, file, clock, cache>>

\* a session that takes only the frames that hold data
session_data_without_empty(extracted_dfs) ==
    [isNone |-> FALSE, list |-> SelectSeq(extracted_dfs, LAMBDA df : ~ DfEmpty(df))]

\* st.session_state.extracted_data = extracted_dfs
session_data(extracted_dfs) ==
    [isNone |-> FALSE, list |-> extracted_dfs]

\* process_pdf shows its final status and returns; the session takes the
\* frames
ProcessReturn ==
    /\ pc = "process"
    /\ step >= Len(processing_steps)
    /\ extracted_data' = session_data(frames)
    /\ processing_done' = TRUE
    /\ pc' = "done"
    /\ progress_container' =
          [progress_container EXCEPT !.status = final_status(all_successful)]
    /\ UNCHANGED <<call, ret, doc, step, frames, base_names, all_successful,
                   validated, file, clock, uploaded_file_bytes, file_name,
                   last_uploaded_file_id, cache>>

----------------------------------------------------------------------------
(* Display and export of the extracted frames *)

RENAME_MAP_P1 ==
  [
    tipo_evaluacion |-> "Tipo de Evaluación",
    codigo_evaluacion |-> "Código de Evaluación",
    region |-> "Región",
    comuna |-> "Comuna",
    direccion |-> "Dirección",
    rol_vivienda_proyecto |-> "Rol de Vivienda o Proyecto",
    tipo_vivienda |-> "Tipo de Vivienda",
    superficie_interior_util_m2 |-> "Superficie Interior Útil (m²)",
    porcentaje_ahorro |-> "Porcentaje de Ahorro (%)",
    letra_eficiencia_energetica_dem |-> "Letra de Eficiencia Energética",
    demanda_calefaccion_kwh_m2_ano |-> "Demanda Calefacción (kWh/m²/año)",
    demanda_enfriamiento_kwh_m2_ano |-> "Demanda Enfriamiento (kWh/m²/año)",
    demanda_total_kwh_m2_ano |-> "Demanda Total (kWh/m²/año)",
    emitida_el |-> "Emitida el"
  ]

RENAME_MAP_P2 ==
  [
    region |-> "Región",
    comuna |-> "Comuna",
    direccion |-> "Dirección",
    rol_vivienda |-> "Rol Vivienda",
    tipo_vivienda |-> "Tipo Vivienda",
    zona_termica |-> "Zona Térmica",
    superficie_interior_util_m2 |-> "Superficie Interior Útil (m²)",
    solicitado_por |-> "Solicitado Por",
    evaluado_por |-> "Evaluado Por",
    codigo_evaluacion |-> "Código Evaluación",
    demanda_calefaccion_kwh_m2_ano |-> "Demanda Calefacción Promedio (kWh/m²/año)",
    demanda_enfriamiento_kwh_m2_ano |-> "Demanda Enfriamiento Promedio (kWh/m²/año)",
    demanda_total_kwh_m2_ano |-> "Demanda Total Promedio (kWh/m²/año)",
    demanda_total_bis_kwh_m2_ano |-> "Demanda Total Vivienda Eval. (kWh/m²/año)",
    demanda_total_referencia_kwh_m2_ano |-> "Demanda Total Referencia (kWh/m²/año)",
    porcentaje_ahorro |-> "Porcentaje Ahorro (%)",
    muro_principal_descripcion |-> "Muro Principal: Descripción",
    muro_principal_exigencia_W_m2_K |-> "Muro Principal: Exigencia (W/m²K)",
    muro_secundario_descripcion |-> "Muro Secundario: Descripción",
    muro_secundario_exigencia_W_m2_K |-> "Muro Secundario: Exigencia (W/m²K)",
    piso_principal_descripcion |-> "Piso Principal: Descripción",
    piso_principal_exigencia_W_m2_K |-> "Piso Principal: Exigencia (W/m²K)",
    puerta_principal_descripcion |-> "Puerta Principal: Descripción",
    puerta_principal_exigencia |-> "Puerta Principal: Exigencia",
    techo_principal_descripcion |-> "Techo Principal: Descripción",
    techo_principal_exigencia_W_m2_K |-> "Techo Principal: Exigencia (W/m²K)",
    techo_secundario_descripcion |-> "Techo Secundario: Descripción",
    techo_secundario_exigencia_W_m2_K |-> "Techo Secundario: Exigencia (W/m²K)",
    superficie_vidriada_principal_descripcion |-> "Sup. Vidriada Principal: Descripción",
    superficie_vidriada_principal_exigencia |-> "Sup. Vidriada Principal: Exigencia",
    superficie_vidriada_secundaria_descripcion |-> "Sup. Vidriada Secundaria: Descripción",
    superficie_vidriada_secundaria_exigencia |-> "Sup. Vidriada Secundaria: Exigencia",
    ventilacion_rah_descripcion |-> "Ventilación (RAH): Descripción",
    ventilacion_rah_exigencia |-> "Ventilación (RAH): Exigencia",
    infiltraciones_rah_descripcion |-> "Infiltraciones (RAH): Descripción",
    infiltraciones_rah_exigencia |-> "Infiltraciones (RAH): Exigencia"
  ]

RENAME_MAP_P3_CONSUMOS ==
  [
    codigo_evaluacion |-> "Código Evaluación",
    agua_caliente_sanitaria_kwh_m2 |-> "ACS (kWh/m²)",
    agua_caliente_sanitaria_perc |-> "ACS (%)",
    iluminacion_kwh_m2 |-> "Iluminación (kWh/m²)",
    iluminacion_per |-> "Iluminación (%)",
    calefaccion_kwh_m2 |-> "Calefacción (kWh/m²)",
    calefaccion_kwh_per |-> "Calefacción (%)",
    energia_renovable_no_convencional_kwh_m2 |-> "ERNC (kWh/m²)",
    energia_renovable_no_convencional_per |-> "ERNC (%)",
    consumo_total_kwh_m2 |-> "Consumo Total (kWh/m²)",
    emisiones_kgco2_m2_ano |-> "Emisiones (kgCO₂e/m²/año)",
    calefaccion_descripcion_proy |-> "Calefacción Proy.: Desc.",
    calefaccion_consumo_proy_kwh |-> "Calefacción Proy. (kWh)",
    calefaccion_consumo_proy_per |-> "Calefacción Proy. (%)",
    iluminacion_descripcion_proy |-> "Iluminación Proy.: Desc.",
    iluminacion_consumo_proy_kwh |-> "Iluminación Proy. (kWh)",
    iluminacion_consumo_proy_per |-> "Iluminación Proy. (%)",
    agua_caliente_sanitaria_descripcion_proy |-> "ACS Proy.: Desc.",
    agua_caliente_sanitaria_consumo_proy_kwh |-> "ACS Proy. (kWh)",
    agua_caliente_sanitaria_consumo_proy_per |-> "ACS Proy. (%)",
    energia_renovable_no_convencional_descripcion_proy |-> "ERNC Proy.: Desc.",
    energia_renovable_no_convencional_consumo_proy_kwh |-> "ERNC Proy. (kWh)",
    energia_renovable_no_convencional_consumo_proy_per |-> "ERNC Proy. (%)",
    consumo_total_requerido_proy_kwh |-> "Consumo Total Proy. (kWh)",
    calefaccion_descripcion_ref |-> "Calefacción Ref.: Desc.",
    calefaccion_consumo_ref_kwh |-> "Calefacción Ref. (kWh)",
    calefaccion_consumo_ref_per |-> "Calefacción Ref. (%)",
    iluminacion_descripcion_ref |-> "Iluminación Ref.: Desc.",
    iluminacion_consumo_ref_kwh |-> "Iluminación Ref. (kWh)",
    iluminacion_consumo_ref_per |-> "Iluminación Ref. (%)",
    agua_caliente_sanitaria_descripcion_ref |-> "ACS Ref.: Desc.",
    agua_caliente_sanitaria_consumo_ref_kwh |-> "ACS Ref. (kWh)",
    agua_caliente_sanitaria_consumo_ref_per |-> "ACS Ref. (%)",
    energia_renovable_no_convencional_descripcion_ref |-> "ERNC Ref.: Desc.",
    energia_renovable_no_convencional_consumo_ref_kwh |-> "ERNC Ref. (kWh)",
    energia_renovable_no_convencional_consumo_ref_per |-> "ERNC Ref. (%)",
    consumo_total_requerido_ref_kwh |-> "Consumo Total Ref. (kWh)",
    consumo_ep_calefaccion_kwh |-> "EP Consumo Calef. (kWh)",
    consumo_ep_agua_caliente_sanitaria_kwh |-> "EP Consumo ACS (kWh)",
    consumo_ep_iluminacion_kwh |-> "EP Consumo Ilum. (kWh)",
    consumo_ep_ventiladores_kwh |-> "EP Consumo Vent. (kWh)",
    generacion_ep_fotovoltaicos_kwh |-> "EP Gen. FV (kWh)",
    aporte_fotovoltaicos_consumos_basicos_kwh |-> "EP Aporte FV (kWh)",
    diferencia_fotovoltaica_para_consumo_kwh |-> "EP Dif. FV (kWh)",
    aporte_solar_termica_consumos_basicos_kwh |-> "EP Aporte Solar T. (kWh)",
    aporte_solar_termica_agua_caliente_sanitaria_kwh |-> "EP Aporte Solar T. ACS (kWh)",
    total_consumo_ep_antes_fotovoltaica_kwh |-> "EP Total Antes FV (kWh)",
    aporte_fotovoltaicos_consumos_basicos_kwh_bis |-> "EP Aporte FV Bis (kWh)",
    consumos_basicos_a_suplir_kwh |-> "EP Consumos a Suplir (kWh)",
    consumo_total_ep_obj_kwh |-> "Consumo Total EP Obj (kWh)",
    consumo_total_ep_ref_kwh |-> "Consumo Total EP Ref (kWh)",
    coeficiente_energetico_c |-> "Coeficiente Energético (C)"
  ]

RENAME_MAP_P3_ENVOLVENTE ==
  [
    codigo_evaluacion |-> "Código Evaluación",
    orientacion |-> "Orientación",
    elementos_opacos_area_m2 |-> "Opacos: Área (m²)",
    elementos_opacos_U_W_m2_K |-> "Opacos: U (W/m²K)",
    elementos_traslucidos_area_m2 |-> "Traslúcidos: Área (m²)",
    elementos_traslucidos_U_W_m2_K |-> "Traslúcidos: U (W/m²K)",
    P01_W_K |-> "PT P01 (W/K)",
    P02_W_K |-> "PT P02 (W/K)",
    P03_W_K |-> "PT P03 (W/K)",
    P04_W_K |-> "PT P04 (W/K)",
    P05_W_K |-> "PT P05 (W/K)",
    UA_phiL |-> "Ht (UA + φL) (W/K)"
  ]

RENAME_MAP_P4 ==
  [
    codigo_evaluacion |-> "Código Evaluación",
    mes |-> "Mes",
    demanda_calef_viv_eval_kwh |-> "Dem. Calef. Eval. (kWh)",
    demanda_calef_viv_ref_kwh |-> "Dem. Calef. Ref. (kWh)",
    demanda_enfri_viv_eval_kwh |-> "Dem. Enfri. Eval. (kWh)",
    demanda_enfri_viv_ref_kwh |-> "Dem. Enfri. Ref. (kWh)",
    sobrecalentamiento_viv_eval_hr |-> "Sobrecalent. Eval. (hr)",
    sobrecalentamiento_viv_ref_hr |-> "Sobrecalent. Ref. (hr)",
    sobreenfriamiento_viv_eval_hr |-> "Sobreenfri. Eval. (hr)",
    sobreenfriamiento_viv_ref_hr |-> "Sobreenfri. Ref. (hr)"
  ]

RENAME_MAP_P5_P6 ==
  [
    codigo_evaluacion |-> "Código Evaluación",
    content_note |-> "Nota"
  ]

RENAME_MAP_P7 ==
  [
    codigo_evaluacion |-> "Código Evaluación",
    mandante_nombre |-> "Mandante: Nombre",
    mandante_rut |-> "Mandante: RUT",
    evaluador_nombre |-> "Evaluador: Nombre",
    evaluador_rut |-> "Evaluador: RUT",
    evaluador_rol_minvu |-> "Evaluador: Rol MINVU"
  ]

\* the rename maps in the order of the extracted frames
ALL_RENAME_MAPS ==
    <<RENAME_MAP_P1, RENAME_MAP_P2, RENAME_MAP_P3_CONSUMOS, RENAME_MAP_P3_ENVOLVENTE,
      RENAME_MAP_P4, RENAME_MAP_P5_P6, RENAME_MAP_P5_P6, RENAME_MAP_P7>>

excel_sheet_names ==
    <<"Pagina1", "Pagina2", "Pagina3_Consumos", "Pagina3_Envolvente", "Pagina4",
      "Pagina5", "Pagina6", "Pagina7">>

\* the calls of display_dataframe_with_title that the data tabs make, in
\* order; df_index is the zero-based index into extracted_data
data_structure ==
    <<[title |-> "Información General", df_index |-> 0, transpose |-> TRUE,
       rename_map |-> RENAME_MAP_P1],
      [title |-> "Información Gral. / Demanda / Diseño Arq.", df_index |-> 1,
       transpose |-> TRUE, rename_map |-> RENAME_MAP_P2],
      [title |-> "Consumo Energético Estimado", df_index |-> 2, transpose |-> TRUE,
       rename_map |-> RENAME_MAP_P3_CONSUMOS],
      [title |-> "Resumen Envolvente", df_index |-> 3, transpose |-> FALSE,
       rename_map |-> RENAME_MAP_P3_ENVOLVENTE],
      [title |-> "Demanda / Sobrecalentamiento / Sobreenfriamiento Mensual",
       df_index |-> 4, transpose |-> FALSE, rename_map |-> RENAME_MAP_P4],
      [title |-> "Página 5 (Gráficos)", df_index |-> 5, transpose |-> TRUE,
       rename_map |-> RENAME_MAP_P5_P6],
      [title |-> "Página 6 (Gráficos)", df_index |-> 6, transpose |-> TRUE,
       rename_map |-> RENAME_MAP_P5_P6],
      [title |-> "Antecedentes de la Evaluación", df_index |-> 7, transpose |-> TRUE,
       rename_map |-> RENAME_MAP_P7]>>

\* df.rename(columns={k: v for k, v in rename_map.items() if k in df.columns})
RenameColumns(df, rename_map) ==
    LET label(k) == IF k \in DOMAIN rename_map THEN rename_map[k] ELSE k
    IN  [nrows |-> df.nrows,
         col |-> [l \in {label(k) : k \in DOMAIN df.col} |->
                     df.col[CHOOSE k \in DOMAIN df.col : label(k) = l]]]

\* a dict without one key
WithoutKey(m, key) == [k \in DOMAIN m \ {key} |-> m[k]]

\* what a call of display_dataframe_with_title puts on the page
Shown(title) ==
    [header |-> title, warning |-> FALSE, info |-> None, dataframe |-> FALSE,
     display_data |-> EmptyFrame, transposed |-> FALSE]

\* display_dataframe_with_title: the header, then a warning for no data, the
\* note of a placeholder frame, or the table
display_dataframe_with_title(title, data, transpose, rename_map) ==
    LET data_to_display == RenameColumns(data, rename_map)
        is_placeholder == "content_note" \in DOMAIN data.col
        placeholder_note_col ==
            IF "content_note" \in DOMAIN rename_map THEN rename_map["content_note"]
            ELSE "content_note"
    IN  IF DfEmpty(data) THEN [Shown(title) EXCEPT !.warning = TRUE]
        ELSE IF is_placeholder /\ placeholder_note_col \in DOMAIN data_to_display.col
        THEN LET note == data_to_display.col[placeholder_note_col][1]
                 display_data == DropColumn(data_to_display, placeholder_note_col)
             IN  IF transpose /\ ~ DfEmpty(display_data)
                 THEN [Shown(title) EXCEPT !.info = note, !.dataframe = TRUE,
                                            !.display_data = display_data,
                                            !.transposed = TRUE]
                 ELSE [Shown(title) EXCEPT !.info = note]
        ELSE [Shown(title) EXCEPT !.dataframe = TRUE,
                                   !.display_data = data_to_display,
                                   !.transposed = transpose]

\* the sheet written for frame i: the frame without content_note, renamed by
\* the map without content_note.  None of the eight sheet names holds a
\* character that re.sub replaces, or more than 31 characters.
ExcelSheet(dataframes_list, sheet_names, rename_maps, i) ==
    [sheet_name |-> sheet_names[i],
     df_to_write |-> RenameColumns(DropColumn(dataframes_list[i], "content_note"),
                                   WithoutKey(rename_maps[i], "content_note"))]

\* create_multisheet_excel: one sheet for every frame that is not empty
create_multisheet_excel(dataframes_list, sheet_names, rename_maps) ==
    IF Len(dataframes_list) # Len(sheet_names) \/ Len(dataframes_list) # Len(rename_maps)
    THEN <<>>
    ELSE LET written == {i \in 1..Len(dataframes_list) : ~ DfEmpty(dataframes_list[i])}
             Filled(i) == i \in written
             order == SelectSeq([i \in 1..Len(dataframes_list) |-> i], Filled)
         IN  [j \in 1..Len(order) |->
                ExcelSheet(dataframes_list, sheet_names, rename_maps, order[j])]

\* main, the download button: the workbook of the extracted frames
MainDownload ==
    /\ pc \in Returned
    /\ processing_done
    /\ ~ extracted_data.isNone /\ extracted_data.list # <<>>
    /\ call' = [fn |-> "create_multisheet_excel"]
    /\ ret' = IF Len(ALL_RENAME_MAPS) = Len(extracted_data.list)
              THEN Ok(create_multisheet_excel(extracted_data.list, excel_sheet_names,
                                              ALL_RENAME_MAPS))
              ELSE Ok(None)
    /\ UNCHANGED <<doc, procVars, sessionVars>>

\* main, the data tabs: one call of display_dataframe_with_title for every
\* entry of data_structure when the session holds 8 frames, a hint if not
MainTabs ==
    /\ pc \in Returned
    /\ IF processing_done /\ ~ extracted_data.isNone /\ Len(extracted_data.list) = 8
       THEN \E i \in 1..Len(data_structure) :
               /\ call' = [fn |-> "display_dataframe_with_title", i |-> i]
               /\ ret' = Ok(display_dataframe_with_title(
                               data_structure[i].title,
                               extracted_data.list[data_structure[i].df_index + 1],
                               data_structure[i].transpose,
                               data_structure[i].rename_map))
       ELSE /\ call' = [fn |-> "st.info"]
            /\ ret' = Ok(None)
    /\ UNCHANGED <<doc, procVars, sessionVars>>

Init ==
    /\ call = NoCall
    /\ ret = Ok(None)
    /\ doc = NoDoc
    /\ InitProc
    /\ InitSession

Next ==
    \/ MainUpload
    \/ MainSample
    \/ Open
    \/ Validate
    \/ ProcessStep
    \/ ProcessRaises
    \/ ProcessReturn
    \/ MainDownload
    \/ MainTabs

Spec == Init /\ [][Next]_vars

\* what step k of process_pdf contributes for document d
StepFrame(d, k) ==
    CHOOSE df \in {IF out.exc = "none" THEN out.val ELSE EmptyFrame :
                      out \in {Apply(processing_steps[k].func, d)}} : TRUE

\* the extractor of step k raises on d or returns an empty frame
StepFails(d, k) ==
    \E out \in {Apply(processing_steps[k].func, d)} :
        out.exc # "none" \/ DfEmpty(out.val)

\* C5: whatever extractors succeed, return empty or raise, process_pdf returns
\* exactly 8 frames and 8 names, in the order of processing_steps; the frame
\* of an extractor that raised is empty, the others are what it returned.
C5_EightFramesInOrder ==
    pc = "done" =>
        /\ ~ extracted_data.isNone
        /\ Len(extracted_data.list) = 8
        /\ Len(base_names) = 8
        /\ \A k \in 1..8 :
              /\ base_names[k] = processing_steps[k].base_name
              /\ \E out \in {Apply(processing_steps[k].func, doc)} :
                    IF out.exc = "none" THEN extracted_data.list[k] = out.val
                    ELSE DfEmpty(extracted_data.list[k])

\* process_pdf returned for a document on which one extractor raised, another
\* returned an empty frame and the others returned data
C5_Witness ==
    /\ pc = "done"
    /\ Apply(processing_steps[6].func, doc).exc # "none"
    /\ Apply(processing_steps[1].func, doc) = Ok(EmptyFrame)
    /\ ~ DfEmpty(extracted_data.list[8])
    /\ ~ all_successful

\* C6: when the extractor of step i raises or returns an empty frame, the
\* frame of every other step j is what extractor j gives on its own, and the
\* steps after i are run: the loop ends with all 8 steps done.
C6_FailureIsolated ==
    /\ pc = "process" => Len(frames) = step
    /\ pc = "done" => Len(frames) = Len(processing_steps)
    /\ \E own \in {[k \in 1..Len(frames) |-> Apply(processing_steps[k].func, doc)]} :
          \A i \in 1..Len(frames) :
              (own[i].exc # "none" \/ DfEmpty(own[i].val)) =>
                  \A j \in 1..Len(frames) \ {i} :
                      frames[j] = IF own[j].exc = "none" THEN own[j].val
                                  ELSE EmptyFrame

\* the extractor of step 6 raised and steps 7 and 8 gave their frames
C6_Witness ==
    /\ pc = "done"
    /\ Apply(processing_steps[6].func, doc).exc = "RuntimeError"
    /\ DfEmpty(frames[6])
    /\ frames[5].nrows = 12
    /\ frames[7].nrows = 1
    /\ frames[8].nrows = 1

\* C9: extractors run, and frames exist, only for the document on which
\* is_valid_cev_v2_pdf returned true within the same call.
C9_ExtractionOnlyAfterValidation ==
    (pc \in {"process", "done"} \/ step > 0 \/ frames # <<>>) =>
        /\ validated = doc
        /\ is_valid_cev_v2_pdf(doc) = Ok(TRUE)

\* an extractor has run on an uploaded document that was validated
C9_Witness ==
    /\ pc = "process"
    /\ step > 0
    /\ validated = doc
    /\ file.name = "report.pdf"

\* C10: when trigger_processing ends because the file cannot be opened, is
\* invalid, or processing raised, the session holds no file, no file name, no
\* file id, no extracted data, and processing_done is false.
C10_FailureResetsSession ==
    pc \in {"invalid", "error"} =>
        /\ uploaded_file_bytes = "None"
        /\ file_name = "None"
        /\ last_uploaded_file_id = NoneId
        /\ extracted_data = NoneData
        /\ processing_done = FALSE

\* processing raised after three extractors had given their frames
C10_Witness ==
    /\ pc = "error"
    /\ Len(frames) = 3
    /\ extracted_data = NoneData
    /\ uploaded_file_bytes = "None"

\* C26: the frames of pages 5 and 6 have one row made of codigo_evaluacion
\* and the note column content_note, and the data tabs and the workbook
\* treat that column as the placeholder note: they show or write the
\* evaluation code only.
C26_PlaceholderNoteRecognised ==
    /\ pc = "done" =>
          \A k \in {6, 7} :
              ~ DfEmpty(extracted_data.list[k]) =>
                  /\ extracted_data.list[k].nrows = 1
                  /\ DOMAIN extracted_data.list[k].col =
                        {"codigo_evaluacion", "content_note"}
    /\ (call.fn = "display_dataframe_with_title" /\ call.i \in {6, 7}
            /\ ~ ret.val.warning) =>
          DOMAIN ret.val.display_data.col \subseteq {RENAME_MAP_P5_P6.codigo_evaluacion}
    /\ (call.fn = "create_multisheet_excel" /\ ret.val # None) =>
          \A j \in 1..Len(ret.val) :
              ret.val[j].sheet_name \in {"Pagina5", "Pagina6"} =>
                  DOMAIN ret.val[j].df_to_write.col = {RENAME_MAP_P5_P6.codigo_evaluacion}

\* C28: once trigger_processing has run to its end for an uploaded file, a
\* later run of main in which the widget still holds that file (the same
\* file_id) does not call trigger_processing for it again.
C28_SameUploadNotProcessedAgain ==
    [][~ (/\ pc = "done"
          /\ file.id # 0
          /\ pc' = "open"
          /\ file' = file)]_vars

\* C29: when process_pdf has returned, every page whose extractor raised or
\* gave an empty frame was named in a warning and the final status is the
\* one with errors; the plain success status is shown only when all eight
\* frames hold data.
C29_FailedPagesAreReported ==
    pc = "done" =>
        /\ \A k \in 1..Len(processing_steps) :
              DfEmpty(frames[k]) =>
                  /\ \E j \in 1..Len(progress_container.warnings) :
                        progress_container.warnings[j] = processing_steps[k].base_name
                  /\ progress_container.status = final_status(FALSE)
        /\ progress_container.status = final_status(TRUE) =>
              \A k \in 1..Len(processing_steps) : ~ DfEmpty(frames[k])

\* C30: whenever processing_done is true the session holds exactly 8 frames,
\* a file name, the file bytes and a file id; whenever a call of
\* trigger_processing has ended and processing_done is false, extracted_data
\* is None.
C30_SessionInvariant ==
    /\ processing_done =>
          /\ ~ extracted_data.isNone
          /\ Len(extracted_data.list) = 8
          /\ file_name # "None"
          /\ uploaded_file_bytes # "None"
          /\ last_uploaded_file_id # NoneId
    /\ (pc \in Returned \ {"idle"} /\ ~ processing_done) =>
          extracted_data = NoneData

\* a second call of trigger_processing has ended with the frames of an
\* upload of which one page failed, after a first call
C30_Witness ==
    /\ pc = "done"
    /\ clock = 2
    /\ processing_done
    /\ file.name = "mixed.pdf"
    /\ Len(extracted_data.list) = 8
    /\ DfEmpty(extracted_data.list[6])
    /\ file_name = "mixed.pdf"

----------------------------------------------------------------------------
(* Specification of the grade mapping, applied once to a savings fraction *)

\* the hundredths from -0.50 to 1.10, values around and far above the last
\* boundary (100), some integers, and None
GradeArgs ==
    {PyFloat(n, 2) : n \in -50..110}
        \cup {PyFloat(n, 2) : n \in {150, 9999, 10000, 10001, 15000}}
        \cup {PyFloat(n, 3) : n \in {-351, -349, -101, -99, 199, 201, 399, 401,
                                     549, 551, 699, 701, 849, 851}}
        \cup {PyInt(n) : n \in {-1, 0, 1, 100, 101}}
        \cup {None}

CallLetra ==
    /\ call.fn = "none"
    /\ \E porcentaje_ahorro \in GradeArgs :
         /\ call' = [fn |-> "_from_procentaje_ahorro_to_letra",
                     porcentaje_ahorro |-> porcentaje_ahorro]
         /\ ret' = _from_procentaje_ahorro_to_letra(porcentaje_ahorro)
    /\ UNCHANGED <<procVars, sessionVars>>

InitGrade ==
    /\ call = NoCall
    /\ ret = Ok(None)
    /\ doc = NoDoc
    /\ InitProc
    /\ InitSession

SpecGrade == InitGrade /\ [][CallLetra]_vars

\* the call was made on the fraction n / 100
LetraOf(n) ==
    /\ call.fn = "_from_procentaje_ahorro_to_letra"
    /\ call.porcentaje_ahorro = PyFloat(n, 2)

Letra(g) == Ok(PyStr(<<g>>))

\* C11 (as stated): the fractions -0.40, -0.10, 0.00, 0.25, 0.45, 0.60, 0.75,
\* 0.90 and 1.50 give G, F, F, D, C, B, A, A+ and A+.
C11_GradesOfTheExample ==
    /\ LetraOf(-40) => ret = Letra("G")
    /\ LetraOf(-10) => ret = Letra("F")
    /\ LetraOf(0) => ret = Letra("F")
    /\ LetraOf(25) => ret = Letra("D")
    /\ LetraOf(45) => ret = Letra("C")
    /\ LetraOf(60) => ret = Letra("B")
    /\ LetraOf(75) => ret = Letra("A")
    /\ LetraOf(90) => ret = Letra("A+")
    /\ LetraOf(150) => ret = Letra("A+")

\* C11 (amended): the fractions -0.40, -0.10, 0.00, 0.25, 0.45, 0.60, 0.75,
\* 0.90 and 1.50 give G, F, E, D, C, B, A, A+ and A+: 0.00 lies between the
\* thresholds -0.10 and 0.20, the range of E.
C11_GradesOfTheExampleWithE ==
    /\ LetraOf(-40) => ret = Letra("G")
    /\ LetraOf(-10) => ret = Letra("F")
    /\ LetraOf(0) => ret = Letra("E")
    /\ LetraOf(25) => ret = Letra("D")
    /\ LetraOf(45) => ret = Letra("C")
    /\ LetraOf(60) => ret = Letra("B")
    /\ LetraOf(75) => ret = Letra("A")
    /\ LetraOf(90) => ret = Letra("A+")
    /\ LetraOf(150) => ret = Letra("A+")

\* the fraction 0.00 was graded E
C11_Witness == LetraOf(0) /\ ret = Letra("E")

\* the grade below and the grade above each threshold, in hundredths
Thresholds ==
    <<[at |-> -10, below |-> "F", above |-> "E"],
      [at |-> 20, below |-> "E", above |-> "D"],
      [at |-> 40, below |-> "D", above |-> "C"],
      [at |-> 55, below |-> "C", above |-> "B"],
      [at |-> 70, below |-> "B", above |-> "A"],
      [at |-> 85, below |-> "A", above |-> "A+"]>>

\* C12: a value equal to a threshold -0.10, 0.20, 0.40, 0.55, 0.70 or 0.85
\* maps to the higher of the two adjacent grades, a value just below it to
\* the lower one.
C12_ThresholdsLowerInclusive ==
    \A i \in 1..Len(Thresholds) :
        /\ LetraOf(Thresholds[i].at) => ret = Letra(Thresholds[i].above)
        /\ (/\ call.fn = "_from_procentaje_ahorro_to_letra"
            /\ call.porcentaje_ahorro = PyFloat(Thresholds[i].at * 10 - 1, 3)) =>
                ret = Letra(Thresholds[i].below)

IsNumber(v) == v.t \in {"int", "float"}

\* C13: every number at or below -0.35 maps to G, every number above 0.85 to
\* A+, and no number gives None or a value that is not one of the 8 grades.
C13_TotalOnNumbers ==
    (call.fn = "_from_procentaje_ahorro_to_letra"
        /\ IsNumber(call.porcentaje_ahorro)) =>
        /\ ret.exc = "none"
        /\ ret \in {Letra(grades[i]) : i \in 1..Len(grades)}
        /\ ~ DecLt(PyFloat(-35, 2), call.porcentaje_ahorro) => ret = Letra("G")
        /\ DecLt(PyFloat(85, 2), call.porcentaje_ahorro) => ret = Letra("A+")

\* C14: the grade mapping returns None for None and does not raise.
C14_NoneGivesNone ==
    (call.fn = "_from_procentaje_ahorro_to_letra"
        /\ call.porcentaje_ahorro = None) => ret = Ok(None)

\* the position of a returned grade in G < F < E < D < C < B < A < A+; 0 for
\* a result that is no grade
GradeRank(out) ==
    IF \E i \in 1..Len(grades) : out = Letra(grades[i])
    THEN CHOOSE i \in 1..Len(grades) : out = Letra(grades[i])
    ELSE 0

\* C15: for all numbers p <= q both have a grade and the grade of p is not
\* above the grade of q.
C15_Monotonic ==
    (call.fn = "_from_procentaje_ahorro_to_letra"
        /\ IsNumber(call.porcentaje_ahorro)) =>
        \A q \in {a \in GradeArgs : IsNumber(a)} :
            ~ DecLt(q, call.porcentaje_ahorro) =>
                /\ GradeRank(ret) > 0
                /\ GradeRank(_from_procentaje_ahorro_to_letra(q)) > 0
                /\ GradeRank(ret) <= GradeRank(_from_procentaje_ahorro_to_letra(q))

----------------------------------------------------------------------------
(* Specification of the page-4 record on pages with empty month cells *)

MaxEmptyCells == 2

\* the series whose cells vary
VariedSeries == {"demanda_calef_viv_eval_kwh", "sobreenfriamiento_viv_ref_hr"}

\* reports in which some month cells of one series hold no text, one cell
\* holds a decimal with a comma and the others hold BaseText
MonthlyDocs ==
    {[PlainDoc(7) EXCEPT
        !.layer = [r \in {<<3, P4_CELLS[c.k][i]>> : i \in c.empty \cup {c.j}} |->
                      IF r = <<3, P4_CELLS[c.k][c.j]>> THEN <<"1", ",", "5">>
                      ELSE <<>>]] :
        c \in {c \in [k : VariedSeries, j : {1, 6}, empty : SUBSET (2..MONTHS)] :
                  Cardinality(c.empty) <= MaxEmptyCells /\ c.j \notin c.empty}}

CallPagina4AsDict ==
    /\ call.fn = "none"
    /\ call' = [fn |-> "get_informe_cev_v2_pagina4_as_dict", k |-> 5]
    /\ ret' = get_informe_cev_v2_pagina4_as_dict(doc)
    /\ UNCHANGED <<procVars, sessionVars>>

InitMonthly ==
    /\ call = NoCall
    /\ ret = Ok(None)
    /\ doc \in MonthlyDocs
    /\ InitProc
    /\ InitSession

SpecMonthly == InitMonthly /\ [][CallPagina4AsDict]_vars

\* the text of month cell i of series k on page 4 of d
MonthCell(d, k, i) == Field(PageOf(d, 3), P4_CELLS[k][i])

\* C16: when only some month cells of a series hold text, the series of the
\* page-4 record has exactly 12 entries: None at the positions of the empty
\* cells and the parsed float of the cell at every other position.
C16_EmptyCellsKeepTheirPlace ==
    call.fn = "get_informe_cev_v2_pagina4_as_dict" =>
        /\ ret.exc = "none"
        /\ \A k \in DOMAIN P4_CELLS :
              /\ Len(ret.val[k]) = 12
              /\ \A i \in 1..12 :
                    \E x \in {MonthCell(doc, k, i)} :
                        ret.val[k][i] =
                            IF x = <<>> THEN None
                            ELSE ToFloat(Replace(x, ",", ".")).val

\* cells 11 and 12 of the heating demand are empty: 10 of 12 cells hold text
C16_Witness ==
    /\ call.fn = "get_informe_cev_v2_pagina4_as_dict"
    /\ MonthCell(doc, "demanda_calef_viv_eval_kwh", 11) = <<>>
    /\ MonthCell(doc, "demanda_calef_viv_eval_kwh", 12) = <<>>
    /\ MonthCell(doc, "demanda_calef_viv_eval_kwh", 1) = <<"1", ",", "5">>
    /\ ret.exc = "none"
    /\ Len(ret.val.demanda_calef_viv_eval_kwh) = 12
    /\ ret.val.demanda_calef_viv_eval_kwh[1] = PyFloat(15, 1)
    /\ ret.val.demanda_calef_viv_eval_kwh[10] = PyFloat(42, 0)
    /\ ret.val.demanda_calef_viv_eval_kwh[11] = None
    /\ ret.val.demanda_calef_viv_eval_kwh[12] = None

----------------------------------------------------------------------------
(* Specification of normalize_coordinates, applied once to six numbers *)

\* every finite float of the format that is not negative
Floats ==
    {Float(m, e) : m \in Pow2(FloatBits - 1)..(Pow2(FloatBits) - 1),
                   e \in MinExp..MaxExp}
        \cup {Float(m, MinExp) : m \in 0..(Pow2(FloatBits - 1) - 1)}

\* sizes: zero, the smallest float, and small, middle and large floats
FloatSizes ==
    {Float(0, MinExp), Float(1, MinExp), Float(Pow2(FloatBits - 1), 0),
     Float(Pow2(FloatBits) - 1, 0), Float(Pow2(FloatBits) - 1, MaxExp)}

\* the values of each argument: floats, or numbers of the template
FloatValues ==
    [x |-> Floats, y |-> {Float(1, MinExp), Float(Pow2(FloatBits) - 1, 0)},
     report_width |-> FloatSizes,
     report_height |-> {Float(0, MinExp), Float(Pow2(FloatBits) - 1, 0),
                        Float(Pow2(FloatBits - 1), MaxExp)},
     page_width |-> FloatSizes \ {Float(0, MinExp)},
     page_height |-> {Float(1, MinExp), Float(Pow2(FloatBits - 1), 0)}]

ExactValues ==
    [x |-> {Exact(0), Exact(56), Exact(57), Exact(1658)},
     y |-> {Exact(786), Exact(1913)},
     report_width |-> {Exact(0), Exact(REPORT_WIDTH)},
     report_height |-> {Exact(0), Exact(REPORT_HEIGHT)},
     page_width |-> {Exact(0), Exact(612), Exact(595)},
     page_height |-> {Exact(936), Exact(842)}]

\* the arguments of one call
ArgsOf(v) ==
    [x : v.x, y : v.y, report_width : v.report_width,
     report_height : v.report_height, page_width : v.page_width,
     page_height : v.page_height]

NormalizeArgs == ArgsOf(FloatValues) \cup ArgsOf(ExactValues)

\* the values an argument takes among the calls of the kind of a
ArgValues(a, name) ==
    IF a.x.k = "exact" THEN ExactValues[name] ELSE FloatValues[name]

\* normalize_coordinates on a record of arguments
Normalize(a) ==
    normalize_coordinates(a.x, a.y, a.report_width, a.report_height,
                          a.page_width, a.page_height)

CallNormalize ==
    /\ call.fn = "none"
    /\ \E a \in NormalizeArgs :
         /\ call' = [fn |-> "normalize_coordinates", args |-> a]
         /\ ret' = Normalize(a)
    /\ UNCHANGED <<procVars, sessionVars>>

InitNormalize ==
    /\ call = NoCall
    /\ ret = Ok(None)
    /\ doc = NoDoc
    /\ InitProc
    /\ InitSession

SpecNormalize == InitNormalize /\ [][CallNormalize]_vars

\* the call was made with all four sizes above zero
PositiveSizes ==
    /\ call.fn = "normalize_coordinates"
    /\ ~ IsZero(call.args.report_width)
    /\ ~ IsZero(call.args.report_height)
    /\ ~ IsZero(call.args.page_width)
    /\ ~ IsZero(call.args.page_height)

\* the arguments of the calls that differ from a in one coordinate
OtherX(a) == {[a EXCEPT !.x = x] : x \in ArgValues(a, "x")}

OtherY(a) == {[a EXCEPT !.y = y] : y \in ArgValues(a, "y")}

\* r is the number x * pw / rw, without rounding
ExactlyScaled(r, x, pw, rw) ==
    CASE r.k = "exact" ->
            r.num * (x.den * pw.den * rw.num) = r.den * (x.num * pw.num * rw.den)
      [] r.k = "float" ->
            LET d == (r.e + rw.e) - (x.e + pw.e)
            IN  IF d >= 0 THEN r.m * rw.m * Pow2(d) = x.m * pw.m
                ELSE r.m * rw.m = x.m * pw.m * Pow2(0 - d)
      [] OTHER -> FALSE

\* C19 (as stated): for all sizes above zero the result is exactly
\* (x * PW / RW, y * PH / RH) and each axis is strictly order-preserving:
\* x1 < x2 implies rx1 < rx2, y1 < y2 implies ry1 < ry2.
C19_ExactAndStrictlyIncreasing ==
    PositiveSizes =>
        /\ ret.exc = "none"
        /\ ExactlyScaled(ret.val[1], call.args.x, call.args.page_width,
                         call.args.report_width)
        /\ ExactlyScaled(ret.val[2], call.args.y, call.args.page_height,
                         call.args.report_height)
        /\ \A b \in OtherX(call.args) :
              Lt(call.args.x, b.x) => Lt(ret.val[1], Normalize(b).val[1])
        /\ \A b \in OtherY(call.args) :
              Lt(call.args.y, b.y) => Lt(ret.val[2], Normalize(b).val[2])

\* the arguments that differ from a in one argument of the y axis, or in
\* one argument of the x axis
SameXAxis(a) ==
    {[a EXCEPT !.y = y] : y \in ArgValues(a, "y")}
        \cup {[a EXCEPT !.report_height = rh] :
                 rh \in {h \in ArgValues(a, "report_height") : ~ IsZero(h)}}
        \cup {[a EXCEPT !.page_height = ph] : ph \in ArgValues(a, "page_height")}

SameYAxis(a) ==
    {[a EXCEPT !.x = x] : x \in ArgValues(a, "x")}
        \cup {[a EXCEPT !.report_width = rw] :
                 rw \in {w \in ArgValues(a, "report_width") : ~ IsZero(w)}}
        \cup {[a EXCEPT !.page_width = pw] : pw \in ArgValues(a, "page_width")}

\* C19 (amended): for all sizes above zero the call returns, each axis is
\* scaled on its own (rx depends on x, RW and PW only, ry on y, RH and PH
\* only), and each axis preserves the order without being strict: x1 < x2
\* implies rx1 <= rx2 and y1 < y2 implies ry1 <= ry2, so a rectangle is
\* never inverted.
C19_OrderPreservedPerAxis ==
    PositiveSizes =>
        /\ ret.exc = "none"
        /\ \A b \in SameXAxis(call.args) : Normalize(b).val[1] = ret.val[1]
        /\ \A b \in SameYAxis(call.args) : Normalize(b).val[2] = ret.val[2]
        /\ \A b \in OtherX(call.args) :
              Lt(call.args.x, b.x) => ~ Lt(Normalize(b).val[1], ret.val[1])
        /\ \A b \in OtherY(call.args) :
              Lt(call.args.y, b.y) => ~ Lt(Normalize(b).val[2], ret.val[2])

\* two floats x1 < x2 were scaled to the same finite rx, which is not
\* x1 * PW / RW
C19_Witness ==
    /\ PositiveSizes
    /\ call.args.x.k = "float"
    /\ ret.val[1].k = "float"
    /\ ~ IsZero(ret.val[1])
    /\ ~ ExactlyScaled(ret.val[1], call.args.x, call.args.page_width,
                       call.args.report_width)
    /\ \E b \in OtherX(call.args) :
          Lt(call.args.x, b.x) /\ Normalize(b).val[1] = ret.val[1]

\* C20: with report_width = 0 or report_height = 0 normalize_coordinates
\* does not raise and returns a coordinate that is zero.
C20_ZeroSizeGivesZero ==
    (/\ call.fn = "normalize_coordinates"
     /\ IsZero(call.args.report_width) \/ IsZero(call.args.report_height)) =>
        /\ ret.exc = "none"
        /\ IsZero(ret.val[1]) \/ IsZero(ret.val[2])

----------------------------------------------------------------------------
(* Specification of the extractors sharing the cache of normalize_coordinates:
   one document, its extractors run in any order, again, or two at a time *)

MaxRuns == 2

\* the document under extraction: some regions hold a text of their own
TestDoc ==
    [PlainDoc(7) EXCEPT !.layer =
        (<<0, P1_COORDINATES.region>> :> <<"x">>)
            @@ (<<3, P4_CELLS.demanda_calef_viv_eval_kwh[1]>> :> <<"7">>)
            @@ (<<4, P5_CODIGO>> :> <<"x">>)
            @@ (<<6, P7_COORDINATES[P7_KEYS[1]]>> :> <<"x">>)]

\* a document of another page size, processed by the same process before
OtherDoc == [PlainDoc(7) EXCEPT !.width = 595, !.height = 842]

\* one turn of the loop of process_pdf: the outcome joins the list, the cache
\* is the one the extractor left
StepState(state, d, i) ==
    CHOOSE s \in {[frames |-> Append(state.frames, r.out), cache |-> r.cache] :
                     r \in {ApplyCached(state.cache, i, d)}} : TRUE

\* the steps i, i + 1, ... of process_pdf on d, one after the other
RECURSIVE RunSteps(_, _, _)
RunSteps(state, d, i) ==
    IF i > Len(processing_steps) THEN state
    ELSE CHOOSE s \in {RunSteps(next, d, i + 1) :
                          next \in {StepState(state, d, i)}} : TRUE

\* the outcomes of the eight extractors in the sequential order of
\* process_pdf, in a fresh process
SequentialOutcomes == RunSteps([frames |-> <<>>, cache |-> <<>>], TestDoc, 1).frames

\* extractors i and j on two threads: i has read its first k areas when j
\* runs, then i reads its other areas
Interleaved(c, i, j, k, d) ==
    CHOOSE r \in UNION UNION UNION
        {{{{[views |-> (i :> rest.view) @@ (j :> other.view),
             cache |-> rest.cache, hits |-> rest.hits + other.hits] :
               rest \in {ReadAreas([begun EXCEPT !.cache = other.cache],
                                   page, areas, k + 1, Len(areas))}} :
             other \in {RunView(begun.cache, j, d)}} :
           begun \in {ReadAreas([view |-> <<>>, cache |-> c, hits |-> 0],
                                page, areas, 1, k)}} :
          page \in {PageOf(d, PageIndex[i])}, areas \in {AreaSequence[i]}} : TRUE

\* the cache process_pdf leaves after its steps i, i + 1, ... on d
RECURSIVE CacheLeft(_, _, _)
CacheLeft(c, d, i) ==
    IF i > Len(processing_steps) THEN c
    ELSE CHOOSE r \in {CacheLeft(next, d, i + 1) :
                          next \in {RunView(c, i, d).cache}} : TRUE

\* one extractor is applied to the document, for the first time or again;
\* frames keeps the first outcome of each extractor
RunExtractor ==
    /\ clock < MaxRuns
    /\ \E i \in 1..Len(processing_steps) :
         \E run \in {RunView(cache, i, doc)} :
            \E out \in {Outcomes((i :> run.view), doc)} :
               /\ call' = [fn |-> "extractor", hits |-> run.hits,
                           again |-> i \in DOMAIN frames]
               /\ ret' = out
               /\ cache' = run.cache
               /\ frames' = frames @@ out
    /\ clock' = clock + 1
    /\ UNCHANGED <<doc, pc, step, base_names, all_successful, progress_container,
                   validated, file,
                   sessionVars>>

\* two extractors are applied to the document on two threads, the second
\* running when the first has read one, half, or all but one of its areas
RunInterleaved ==
    /\ clock + 2 <= MaxRuns
    /\ \E i, j \in 1..Len(processing_steps) :
         /\ i # j
         /\ Len(AreaSequence[i]) >= 2
         /\ CheckedPage(doc, PageIndex[i]).exc = "none"
         /\ \E k \in {1, Len(AreaSequence[i]) \div 2, Len(AreaSequence[i]) - 1} :
             \E run \in {Interleaved(cache, i, j, k, doc)} :
               \E out \in {Outcomes(run.views, doc)} :
                  /\ call' = [fn |-> "parallel", hits |-> run.hits,
                              again |-> i \in DOMAIN frames \/ j \in DOMAIN frames]
                  /\ ret' = out
                  /\ cache' = run.cache
                  /\ frames' = frames @@ out
    /\ clock' = clock + 2
    /\ UNCHANGED <<doc, pc, step, base_names, all_successful, progress_container,
                   validated, file,
                   sessionVars>>

\* the process is fresh, or it has processed another document before
InitCache ==
    /\ call = NoCall
    /\ ret = Ok(None)
    /\ doc = TestDoc
    /\ pc = "idle"
    /\ step = 0
    /\ frames = <<>>
    /\ base_names = <<>>
    /\ all_successful = TRUE
    /\ progress_container = NoProgress
    /\ validated = NoDoc
    /\ file = NoFile
    /\ clock = 0
    /\ cache \in {<<>>, CacheLeft(<<>>, OtherDoc, 1)}
    /\ InitSession

NextCache == RunExtractor \/ RunInterleaved

SpecCache == InitCache /\ [][NextCache]_vars

\* C17: an extractor gives on the document what it gives in a fresh process,
\* and what it gave when it ran before: nothing an earlier run left, the
\* entries of the cache and its evictions included, changes a result.
C17_RerunGivesTheSameOutput ==
    call.fn \in {"extractor", "parallel"} =>
        \A i \in DOMAIN ret :
            /\ ret[i] = frames[i]
            /\ ret[i] = ApplyCached(<<>>, i, doc).out

\* an extractor ran again on a full cache and some of its calls were hits
C17_Witness ==
    /\ call.fn = "extractor"
    /\ call.again
    /\ call.hits > 0
    /\ Len(cache) = maxsize

\* C18: in whatever order the extractors run, one after the other or two at
\* a time, each gives the outcome it has in the sequential order of
\* process_pdf.
C18_AnyOrderGivesTheSequentialOutcomes ==
    call.fn \in {"extractor", "parallel"} =>
        \A i \in DOMAIN ret : ret[i] = SequentialOutcomes[i]

\* the extractors of the envelope and of page 4 ran interleaved, with hits in
\* the shared cache, and filled the cache
C18_Witness ==
    /\ call.fn = "parallel"
    /\ call.hits > 0
    /\ DOMAIN ret = {4, 5}
    /\ Len(cache) = maxsize

----------------------------------------------------------------------------
(* Specification of the field conversions, each applied once to a text *)

MaxUnits == 120

MaxLines == 3

DigitChar == <<"0", "1", "2", "3", "4", "5", "6", "7", "8", "9">>

\* the decimal digits of a natural number
RECURSIVE Digits(_)
Digits(n) ==
    IF n < 10 THEN <<DigitChar[n + 1]>>
    ELSE Append(Digits(n \div 10), DigitChar[(n % 10) + 1])

\* the f last digits of a natural number, zeros included
RECURSIVE LastDigits(_, _)
LastDigits(n, f) ==
    IF f = 0 THEN <<>>
    ELSE Append(LastDigits(n \div 10, f - 1), DigitChar[(n % 10) + 1])

\* the decimal n * 10^-f written with f fractional digits and a comma as
\* decimal separator: -150 with f = 2 is "-1,50"
format_cl(n, f) ==
    LET a == IF n < 0 THEN 0 - n ELSE n
    IN  (IF n < 0 THEN <<"-">> ELSE <<>>)
            \o Digits(a \div Pow10(f))
            \o (IF f = 0 THEN <<>> ELSE <<",">> \o LastDigits(a % Pow10(f), f))

\* the conversions the extractors of pages 1, 2, 3 (consumos) and 4 apply to
\* the text of a float field
FloatKinds ==
    {"float", "float_last", "float_last_or_none", "float_unit_or_none",
     "float_or_none", "float_guard", "float_last_guard", "float_last_guard_comma"}

\* the conversions that take the last line of the text with splitlines()[-1]
LastLineKinds == {"float_last", "last_strip", "float_last_or_none"}

ConvertKinds == FloatKinds \cup LastLineKinds \cup {"strip", "flat", "first_strip"}

\* the lines a block of page 1 may hold
ScanLines ==
    {<<"4", "5">>, <<"-", "5">>, <<"1", "-", "2">>, <<"5", "-">>,
     <<"-", "-", "3">>, <<"x">>, <<"7">>}

\* ls joined by line breaks
RECURSIVE JoinLines(_)
JoinLines(ls) ==
    IF Len(ls) = 0 THEN <<>>
    ELSE IF Len(ls) = 1 THEN ls[1]
    ELSE ls[1] \o <<"\n">> \o JoinLines(Tail(ls))

\* the blocks of one to MaxLines lines
ScanBlocks ==
    {JoinLines(ls) : ls \in UNION {[1..k -> ScanLines] : k \in 1..MaxLines}}

\* the texts of the cells of a thermal-bridge series: every cell holds a
\* number, or some cells hold no text
BridgeTexts ==
    {[i \in 1..ENV_BRIDGE_CELLS |->
        IF i \in empty THEN <<>> ELSE format_cl(10 * i + 5, 1)] :
            empty \in {{}, {1}, {ENV_BRIDGE_CELLS}, {3, 4}}}

\* a conversion is applied to the rendering of a decimal
CallCoerceRendered ==
    /\ call.fn = "none"
    /\ \E kind \in FloatKinds, n \in (0 - MaxUnits)..MaxUnits, f \in 0..2 :
         /\ call' = [fn |-> "Coerce", kind |-> kind, text |-> format_cl(n, f),
                     rendered |-> TRUE, n |-> n, f |-> f]
         /\ ret' = Coerce(kind, format_cl(n, f))
    /\ UNCHANGED <<doc, procVars, sessionVars>>

\* a conversion is applied to some other text
CallCoerce ==
    /\ call.fn = "none"
    /\ \E kind \in ConvertKinds, text \in SampleTexts \cup ScanLines :
         /\ call' = [fn |-> "Coerce", kind |-> kind, text |-> text,
                     rendered |-> FALSE, n |-> 0, f |-> 0]
         /\ ret' = Coerce(kind, text)
    /\ UNCHANGED <<doc, procVars, sessionVars>>

\* the scan of line 128 is applied to a block of lines
CallPorcentajeScan ==
    /\ call.fn = "none"
    /\ \E text \in ScanBlocks \cup {<<>>} :
         /\ call' = [fn |-> "PorcentajeScan", text |-> text]
         /\ ret' = PorcentajeScan(text)
    /\ UNCHANGED <<doc, procVars, sessionVars>>

\* the comprehension of a thermal-bridge series is applied to its cell texts
CallCellFloats ==
    /\ call.fn = "none"
    /\ \E texts \in BridgeTexts :
         /\ call' = [fn |-> "CellFloats", texts |-> texts]
         /\ ret' = CellFloats(texts)
    /\ UNCHANGED <<doc, procVars, sessionVars>>

InitConvert ==
    /\ call = NoCall
    /\ ret = Ok(None)
    /\ doc = NoDoc
    /\ InitProc
    /\ InitSession

NextConvert ==
    \/ CallCoerceRendered
    \/ CallCoerce
    \/ CallPorcentajeScan
    \/ CallCellFloats

SpecConvert == InitConvert /\ [][NextConvert]_vars

\* C21: every conversion of a float field gives back the decimal whose
\* rendering with a comma it is applied to, negative, zero or positive, with
\* at most 2 fractional digits.
C21_RoundTrip ==
    (call.fn = "Coerce" /\ call.rendered /\ call.kind \in FloatKinds) =>
        ret = Ok(PyFloat(call.n, call.f))

\* the text with its thousands points removed and its comma made a point
Cleaned(text) == Replace(Remove(text, "."), ",", ".")

\* C22: every conversion of a float field reads "1.234,5" as 1234.5, a comma
\* as the decimal separator, and gives None, raising nothing, for an empty
\* text and for a text that is no number after cleaning.
C22_SeparatorsAndNone ==
    (call.fn = "Coerce" /\ call.kind \in FloatKinds) =>
        /\ call.text = <<"1", ".", "2", "3", "4", ",", "5">> =>
              ret = Ok(PyFloat(12345, 1))
        /\ call.text = <<"1", ",", "5">> => ret = Ok(PyFloat(15, 1))
        /\ call.text = <<>> => ret = Ok(None)
        /\ ToFloat(Cleaned(call.text)).exc # "none" => ret = Ok(None)

\* C23: a conversion that takes the last line of its text gives None and
\* raises no IndexError when the text has no line; an empty cell of a
\* thermal-bridge series gives None at its place.
C23_ZeroLinesGiveNone ==
    /\ (call.fn = "Coerce" /\ call.kind \in LastLineKinds
            /\ SplitLines(call.text) = <<>>) => ret = Ok(None)
    /\ call.fn = "CellFloats" =>
          /\ ret.exc = "none"
          /\ Len(ret.val) = Len(call.texts)
          /\ \A i \in 1..Len(call.texts) :
                SplitLines(call.texts[i]) = <<>> => ret.val[i] = None

\* an optional single leading minus sign followed only by digits
IsSignedDigits(line) ==
    IsDigit(line) \/ (line # <<>> /\ Head(line) = "-" /\ IsDigit(Tail(line)))

\* C24: porcentaje_ahorro is the integer of the first line of the block that
\* is an optional leading minus sign followed only by digits; a line with a
\* minus sign elsewhere is skipped; with no such line the result is None.
C24_FirstSignedDigitLine ==
    call.fn = "PorcentajeScan" =>
        \E ls \in {SplitLines(call.text)} :
            \E c \in {{i \in 1..Len(ls) : IsSignedDigits(ls[i])}} :
                ret = IF c = {} THEN Ok(None) ELSE ToInt(ls[Min(c)])

----------------------------------------------------------------------------
(* Specification of the envelope extractor on pages whose thermal-bridge   *)
(* cells and translucent-element blocks vary                               *)

MaxBlockLines == 11

BridgeSeries == {"P01_W_K", "P02_W_K", "P03_W_K", "P04_W_K", "P05_W_K"}

TranslucentSeries ==
    {"elementos_traslucidos_area_m2", "elementos_traslucidos_U_W_m2_K"}

\* the cells of thermal-bridge series k hold 1,5 2,5 ... 8,5; the first
\* cell may hold a heading line above its number, or no text
BridgeLayer(k, first) ==
    [r \in {<<2, ENV_CELLS[k][i]>> : i \in 1..ENV_BRIDGE_CELLS} |->
        LET i == CHOOSE j \in 1..ENV_BRIDGE_CELLS : r = <<2, ENV_CELLS[k][j]>>
        IN  IF i = 1 /\ first = "empty" THEN <<>>
            ELSE IF i = 1 /\ first = "two_lines"
            THEN <<"x", "\n">> \o format_cl(10 * i + 5, 1)
            ELSE format_cl(10 * i + 5, 1)]

\* the block of translucent series b holds the lines 1, 2, ..., n
BlockLayer(b, n) ==
    (<<2, ENV_COORDINATES[b]>> :> JoinLines([j \in 1..n |-> Digits(j)]))

EnvelopeDocs ==
    {[PlainDoc(7) EXCEPT !.layer = BridgeLayer(c.k, c.first) @@ BlockLayer(c.b, c.n)] :
        c \in [k : BridgeSeries, first : {"number", "two_lines", "empty"},
               b : TranslucentSeries, n : 0..MaxBlockLines]}

CallEnvolventeAsDict ==
    /\ call.fn = "none"
    /\ call' = [fn |-> "get_informe_cev_v2_pagina3_envolvente_as_dict", k |-> 4]
    /\ ret' = get_informe_cev_v2_pagina3_envolvente_as_dict(doc)
    /\ UNCHANGED <<doc, procVars, sessionVars>>

CallEnvolventeAsDataframe ==
    /\ call.fn = "none"
    /\ call' = [fn |-> "get_informe_cev_v2_pagina3_envolvente_as_dataframe", k |-> 4]
    /\ ret' = get_informe_cev_v2_pagina3_envolvente_as_dataframe(doc)
    /\ UNCHANGED <<doc, procVars, sessionVars>>

InitEnvelope ==
    /\ call = NoCall
    /\ ret = Ok(None)
    /\ doc \in EnvelopeDocs
    /\ InitProc
    /\ InitSession

NextEnvelope == CallEnvolventeAsDict \/ CallEnvolventeAsDataframe

SpecEnvelope == InitEnvelope /\ [][NextEnvelope]_vars

\* the text of cell i of series k on page 3 of d
BridgeCell(d, k, i) == Field(PageOf(d, 2), ENV_CELLS[k][i])

\* C25: in the record of the envelope each thermal-bridge series has exactly
\* 10 entries: a zero, the floats of the 8 cells in cell order, and a zero.
C25_BridgeSeriesBetweenZeros ==
    (/\ call.fn = "get_informe_cev_v2_pagina3_envolvente_as_dict"
     /\ ret.exc = "none" /\ ret.val # EmptyDict) =>
        \A k \in BridgeSeries :
            /\ Len(ret.val[k]) = ENV_ROWS
            /\ Len(ret.val[k]) = Len(orientacion)
            /\ ret.val[k][1] = PyInt(0)
            /\ ret.val[k][ENV_ROWS] = PyInt(0)
            /\ \A i \in 1..ENV_BRIDGE_CELLS :
                  \E x \in {BridgeCell(doc, k, i)} :
                      ret.val[k][i + 1] =
                          ToFloat(Replace(LastLine(x).val, ",", ".")).val

\* the cells of P03_W_K hold a heading and 1,5, then 2,5 ... 8,5, and the
\* series of the record is 0, 1.5, 2.5, ..., 8.5, 0
C25_Witness ==
    /\ call.fn = "get_informe_cev_v2_pagina3_envolvente_as_dict"
    /\ BridgeCell(doc, "P03_W_K", 1) = <<"x", "\n", "1", ",", "5">>
    /\ ret.exc = "none"
    /\ ret.val # EmptyDict
    /\ ret.val.P03_W_K =
          <<PyInt(0)>> \o [i \in 1..ENV_BRIDGE_CELLS |-> PyFloat(10 * i + 5, 1)]
              \o <<PyInt(0)>>
    /\ ret.val.P01_W_K[2] = PyFloat(42, 0)

\* the lines of the block of translucent series b on page 3 of d
BlockLines(d, b) == SplitLines(Field(PageOf(d, 2), ENV_COORDINATES[b]))

\* C27: in the table of the envelope the zero appended to a translucent
\* series is at row 9 ("Pisos") and rows 0 to 8 hold the values of the last
\* lines of the block, whether the block has fewer than 9 lines, 9, or more.
C27_TranslucentZeroAtLastRow ==
    (/\ call.fn = "get_informe_cev_v2_pagina3_envolvente_as_dataframe"
     /\ ret.exc = "none" /\ ~ DfEmpty(ret.val)) =>
        \A b \in TranslucentSeries :
            \E ls \in {LastN(BlockLines(doc, b), ENV_ROWS - 1)} :
                /\ ret.val.nrows = ENV_ROWS
                /\ ret.val.col[b][ENV_ROWS] = PyInt(0)
                /\ ret.val.col.orientacion[ENV_ROWS] = PyStr(<<"Pisos">>)
                /\ \A i \in 1..Len(ls) :
                      ret.val.col[b][ENV_ROWS - 1 - Len(ls) + i] =
                          ToFloat(Replace(ls[i], ",", ".")).val

====
